---- MODULE Spec2Model ----
(***************************************************************************)
(* Tracklet: package tracking with per-location backup rotation.           *)
(*                                                                         *)
(* The module models three parts of the server:                            *)
(*   - the backup rotation (server/routes.ts: runBackupForAllLocations and *)
(*     the POST /api/admin/backup/run handler) over the location_backups   *)
(*     table and the remote snapshot store;                                *)
(*   - the package lifecycle (server/storage.ts: createPackage,            *)
(*     updatePackage, bulkUpdatePackages) over the packages table;         *)
(*   - the archive sweep (server/storage.ts: archiveOldPackages) over the  *)
(*     packages and archived_packages tables.                              *)
(*                                                                         *)
(* Every async function is cut at its await points: one action per         *)
(* stretch of code between two awaits, so that handlers interleave         *)
(* exactly where the single-threaded event loop lets them.                 *)
(***************************************************************************)
EXTENDS Integers, Sequences, FiniteSets, TLC

\* SQL NULL of a text column, and an absent value
NULL == "null"
\* SQL NULL of a timestamp column
NoDate == -1

(***************************************************************************)
(* Bounds of the model.                                                    *)
(***************************************************************************)
\* backup runs started one after the other, remote failures allowed
MaxRuns == 3
\* successful backup runs started one after the other from empty tables
MaxRotations == 7
\* backup runs started in a behaviour where two runs may overlap
MaxConcRuns == 2
\* run slots: how many backup runs may be in flight at once
Slots == {1, 2}

\* "Delete oldest if we have 5+"
MaxBackups == 5

\* locations, in the order getLocations returns them (createdAt descending)
AllLocations == <<"B", "A">>
Locations == {AllLocations[i] : i \in DOMAIN AllLocations}

VARIABLES
  \* ---- backup rotation ----
  apiKey,           \* process.env.JSONBIN_API_KEY is set
  locationBackups,  \* table location_backups: set of rows
  nextId,           \* next generated row id / remote bin id
  now,              \* the clock (a timestamp)
  remoteBins,       \* the bins the remote store holds
  deleteRequested,  \* the bin ids a DELETE request was sent for
  createdBins,      \* the bin ids the rotation created remotely
  lastBackupAt,     \* backup_settings.last_backup_at
  run,              \* per run slot: the locals of one backup run
  runsStarted,      \* number of runs started so far
  insertedRows      \* history: every row ever inserted into location_backups

VARIABLES
  \* ---- packages ----
  packages,         \* table packages: set of rows
  request,          \* the last package request received
  response,         \* the answer to it (status 0: not answered yet)
  bulk,             \* the locals of the bulkUpdatePackages call in flight
  archivedPackages, \* table archived_packages: set of rows
  sweep             \* per sweep slot: the locals of one archiveOldPackages call

VARIABLES
  \* ---- storage locations (shelves) ----
  storageLocations, \* table storage_locations: the ids of its rows
  removal           \* the locals of the deleteStorageLocation call in flight

VARIABLES
  \* ---- backup scheduler ----
  settings,         \* the backup_settings row (its defaults when there is none)
  backupInterval,   \* the module variable backupInterval: a timer handle or null
  timers,           \* the interval timers armed in the event loop
  timerSeq,         \* the last timer handle setInterval returned
  pending,          \* per request slot: the scheduler call a handler makes once
                    \* its database statement has answered
  booted,           \* initBackupScheduler has read the settings
  adminCalls,       \* number of settings requests received so far
  started           \* history: the last scheduler call that returned

VARIABLES
  \* ---- pricing ----
  quote             \* the call of calculatePackageCost being made: its
                    \* arguments and, once it has returned, what it returned

VARIABLES
  \* ---- locations and their users ----
  locations,        \* table locations: set of rows
  deletion          \* the locals of the DELETE /api/admin/locations/:id in flight

backupVars == <<apiKey, locationBackups, remoteBins, deleteRequested,
                createdBins, lastBackupAt, run, runsStarted, insertedRows>>

packageVars == <<packages, request, response, bulk, archivedPackages, sweep>>

storageVars == <<storageLocations, removal>>

schedVars == <<settings, backupInterval, timers, timerSeq, pending, booted,
               adminCalls, started>>

pricingVars == <<quote>>

tenantVars == <<locations, deletion>>

vars == <<nextId, now, backupVars, packageVars, storageVars, schedVars, pricingVars,
          tenantVars>>

\* what a step of the backup rotation, and a step of a package request, leave alone
notBackupVars == <<packageVars, storageVars, schedVars, pricingVars, tenantVars>>
notPackageVars == <<backupVars, storageVars, schedVars, pricingVars, tenantVars>>


(***************************************************************************)
(* Sequences helpers.                                                      *)
(***************************************************************************)
\* the first row of a createdAt-descending list: the newest
Newest(backups) == backups[1]

\* const oldest = backups[backups.length - 1], of a createdAt-descending list
Oldest(backups) == backups[Len(backups)]

RECURSIVE SortDescBy(_, _)
\* ORDER BY key DESC of a finite set of rows with a numeric field createdAt
SortDescBy(rows, dummy) ==
  IF rows = {} THEN <<>>
  ELSE LET top == CHOOSE r \in rows : \A q \in rows : q.createdAt <= r.createdAt
       IN  <<top>> \o SortDescBy(rows \ {top}, dummy)

(***************************************************************************)
(* storage.ts: the location_backups table.                                 *)
(***************************************************************************)
getLocationBackups(locationId) ==
  SortDescBy({b \in locationBackups : b.locationId = locationId}, 0)

\* the row addLocationBackup inserts: id and createdAt are column defaults
NewBackupRow(locationId, binId) ==
  [id |-> nextId, locationId |-> locationId, binId |-> binId, createdAt |-> now + 1]

(***************************************************************************)
(* The remote snapshot store (api.jsonbin.io) answers a request in one of  *)
(* three ways: an ok response, an error response (response.ok false), or   *)
(* the fetch itself rejects (network failure).                             *)
(***************************************************************************)
Outcomes == {"ok", "error", "throw"}
Kinds == {"sched", "manual"}

\* evicting only once the location holds more than 5 rows
NeedsEvictionAboveFive(existingBackups) == Len(existingBackups) > MaxBackups

\* if (existingBackups.length >= 5)
NeedsEviction(existingBackups) == Len(existingBackups) >= MaxBackups

IdleRun == [kind |-> "none", pc |-> "idle", locs |-> <<>>,
            oldest |-> NULL, victim |-> NULL, binId |-> NULL, results |-> <<>>]

InFlight(r) == run[r].pc # "idle"

\* the end of one iteration of "for (const loc of allLocations)": the next
\* location, or the statement after the loop
NextLocation(rec) ==
  LET rest == Tail(rec.locs)
  IN  [rec EXCEPT !.locs = rest,
                  !.pc = IF rest = <<>> THEN "settings" ELSE "data",
                  !.oldest = NULL, !.victim = NULL, !.binId = NULL]

\* what a run reports about the location it is at.  Manual run:
\*   results.push({ locationId: loc.id, name: loc.name, success: ... })
\* scheduled run: console.log(`[Backup] Created backup for ${loc.name}`) and
\*   console.error(`[Backup] Failed for ${loc.name}:`, err)
Reported(rec, success) ==
  [rec EXCEPT !.results =
     Append(@, [locationId |-> Head(rec.locs), success |-> success])]

(***************************************************************************)
(* runBackupForAllLocations (kind "sched") and the handler of              *)
(* POST /api/admin/backup/run (kind "manual"): the same statements, cut at *)
(* their awaits.                                                           *)
(***************************************************************************)
\* const apiKey = process.env.JSONBIN_API_KEY; if (!apiKey) return;
\* const allLocations = await storage.getLocations();
StartRun(r, kind, limit) ==
  /\ run[r].pc = "idle"
  /\ runsStarted < limit
  /\ runsStarted' = runsStarted + 1
  /\ run' = [run EXCEPT ![r] =
               IF apiKey /\ AllLocations # <<>>
               THEN [IdleRun EXCEPT !.kind = kind, !.pc = "data", !.locs = AllLocations]
               ELSE IF apiKey
               THEN [IdleRun EXCEPT !.kind = kind, !.pc = "settings"]
               ELSE IdleRun]
  /\ UNCHANGED <<notBackupVars, apiKey, locationBackups, nextId, now, remoteBins,
                 deleteRequested, createdBins, lastBackupAt, insertedRows>>

\* const backupData = await storage.getLocationDataForBackup(loc.id);
BuildExport(r) ==
  /\ run[r].pc = "data"
  /\ run' = [run EXCEPT ![r].pc = "list"]
  /\ UNCHANGED <<notBackupVars, apiKey, locationBackups, nextId, now, remoteBins,
                 deleteRequested, createdBins, lastBackupAt, runsStarted, insertedRows>>

\* const existingBackups = await storage.getLocationBackups(loc.id);
\* if (existingBackups.length >= 5) { const oldest = existingBackups[length - 1]; ...
ReadExisting(r) ==
  /\ run[r].pc = "list"
  /\ LET existingBackups == getLocationBackups(Head(run[r].locs))
     IN  run' = [run EXCEPT ![r] =
                   IF NeedsEviction(existingBackups)
                   THEN [@ EXCEPT !.pc = "remoteDelete", !.oldest = Oldest(existingBackups)]
                   ELSE [@ EXCEPT !.pc = "create"]]
  /\ UNCHANGED <<notBackupVars, apiKey, locationBackups, nextId, now, remoteBins,
                 deleteRequested, createdBins, lastBackupAt, runsStarted, insertedRows>>

\* await fetch(`https://api.jsonbin.io/v3/b/${oldest.binId}`, { method: "DELETE" })
\* The response is not inspected; a rejected fetch lands in the catch of the
\* location's iteration.
RemoteDelete(r, outcome) ==
  /\ run[r].pc = "remoteDelete"
  /\ deleteRequested' = deleteRequested \cup {run[r].oldest.binId}
  /\ remoteBins' = IF outcome = "ok" THEN remoteBins \ {run[r].oldest.binId}
                   ELSE remoteBins
  /\ run' = [run EXCEPT ![r] =
               IF outcome = "throw" THEN NextLocation(Reported(@, FALSE))
               ELSE [@ EXCEPT !.pc = "findOldest"]]
  /\ UNCHANGED <<notBackupVars, apiKey, locationBackups, nextId, now, createdBins,
                 lastBackupAt, runsStarted, insertedRows>>

\* deleteOldestBackup, first await: const backups = await this.getLocationBackups(locationId);
\* if (backups.length > 0) { const oldest = backups[backups.length - 1]; ...
FindOldest(r) ==
  /\ run[r].pc = "findOldest"
  /\ LET backups == getLocationBackups(Head(run[r].locs))
     IN  run' = [run EXCEPT ![r] =
                   IF Len(backups) > 0
                   THEN [@ EXCEPT !.pc = "deleteRow", !.victim = Oldest(backups)]
                   ELSE [@ EXCEPT !.pc = "create"]]
  /\ UNCHANGED <<notBackupVars, apiKey, locationBackups, nextId, now, remoteBins,
                 deleteRequested, createdBins, lastBackupAt, runsStarted, insertedRows>>

\* deleteOldestBackup, second await:
\* await db.delete(locationBackups).where(eq(locationBackups.id, oldest.id));
DeleteRow(r) ==
  /\ run[r].pc = "deleteRow"
  /\ locationBackups' = {b \in locationBackups : b.id # run[r].victim.id}
  /\ run' = [run EXCEPT ![r].pc = "create"]
  /\ UNCHANGED <<notBackupVars, apiKey, nextId, now, remoteBins, deleteRequested,
                 createdBins, lastBackupAt, runsStarted, insertedRows>>

\* the manual run leaving its loop at a create that was not ok, the throw
\* reaching the handler's outer catch: no lastBackupAt update
RemoteCreateManualAborts(r, outcome) ==
  /\ run[r].pc = "create"
  /\ remoteBins' = IF outcome = "ok" THEN remoteBins \cup {nextId} ELSE remoteBins
  /\ createdBins' = IF outcome = "ok" THEN createdBins \cup {nextId} ELSE createdBins
  /\ nextId' = IF outcome = "ok" THEN nextId + 1 ELSE nextId
  /\ run' = [run EXCEPT ![r] =
               IF outcome = "ok" THEN [@ EXCEPT !.pc = "add", !.binId = nextId]
               ELSE IF outcome = "error" /\ @.kind = "manual" THEN IdleRun
               ELSE IF outcome = "throw" THEN NextLocation(Reported(@, FALSE))
               ELSE NextLocation(@)]
  /\ UNCHANGED <<notBackupVars, apiKey, locationBackups, now, deleteRequested,
                 lastBackupAt, runsStarted, insertedRows>>

\* const createResponse = await fetch("https://api.jsonbin.io/v3/b", { method: "POST", ... })
\* scheduled run: if (createResponse.ok) { ...addLocationBackup... }, and
\*                nothing, not a log line, when it is not ok
\* manual run:    if (!createResponse.ok) { throw new Error(...) }
\* A rejected fetch lands in the catch of the location's iteration.
RemoteCreate(r, outcome) ==
  /\ run[r].pc = "create"
  /\ remoteBins' = IF outcome = "ok" THEN remoteBins \cup {nextId} ELSE remoteBins
  /\ createdBins' = IF outcome = "ok" THEN createdBins \cup {nextId} ELSE createdBins
  /\ nextId' = IF outcome = "ok" THEN nextId + 1 ELSE nextId
  /\ run' = [run EXCEPT ![r] =
               IF outcome = "ok" THEN [@ EXCEPT !.pc = "add", !.binId = nextId]
               ELSE IF outcome = "throw" \/ @.kind = "manual"
               THEN NextLocation(Reported(@, FALSE))
               ELSE NextLocation(@)]
  /\ UNCHANGED <<notBackupVars, apiKey, locationBackups, now, deleteRequested,
                 lastBackupAt, runsStarted, insertedRows>>

\* const binData = await createResponse.json();
\* await storage.addLocationBackup(loc.id, binData.metadata.id);
AddBackup(r) ==
  /\ run[r].pc = "add"
  /\ locationBackups' = locationBackups \cup
                          {NewBackupRow(Head(run[r].locs), run[r].binId)}
  /\ insertedRows' = insertedRows \cup
                          {NewBackupRow(Head(run[r].locs), run[r].binId)}
  /\ nextId' = nextId + 1
  /\ now' = now + 1
  /\ run' = [run EXCEPT ![r] = NextLocation(Reported(@, TRUE))]
  /\ UNCHANGED <<notBackupVars, apiKey, remoteBins, deleteRequested, createdBins,
                 lastBackupAt, runsStarted>>

\* one of the location's database statements rejects (getLocationDataForBackup,
\* getLocationBackups, the two of deleteOldestBackup, addLocationBackup), or
\* createResponse.json() does:  } catch (err) { ... }  of the iteration
FailingSteps == {"data", "list", "findOldest", "deleteRow", "add"}

StepFails(r) ==
  /\ run[r].pc \in FailingSteps
  /\ run' = [run EXCEPT ![r] = NextLocation(Reported(@, FALSE))]
  /\ UNCHANGED <<notBackupVars, apiKey, locationBackups, nextId, now, remoteBins,
                 deleteRequested, createdBins, lastBackupAt, runsStarted, insertedRows>>

\* updating lastBackupAt only when the run recorded a backup
UpdateLastBackupIfCreated(r) ==
  /\ run[r].pc = "settings"
  /\ lastBackupAt' = IF \E i \in DOMAIN run[r].results : run[r].results[i].success
                     THEN now ELSE lastBackupAt
  /\ run' = [run EXCEPT ![r] = IdleRun]
  /\ UNCHANGED <<notBackupVars, apiKey, locationBackups, nextId, now, remoteBins,
                 deleteRequested, createdBins, runsStarted, insertedRows>>

\* await storage.updateBackupSettings({ lastBackupAt: new Date() });
UpdateLastBackup(r) ==
  /\ run[r].pc = "settings"
  /\ lastBackupAt' = now
  /\ run' = [run EXCEPT ![r] = IdleRun]
  /\ UNCHANGED <<notBackupVars, apiKey, locationBackups, nextId, now, remoteBins,
                 deleteRequested, createdBins, runsStarted, insertedRows>>

(***************************************************************************)
(* shared/schema.ts: the packages table.  A request body and the "updates"  *)
(* of a bulk update are partial records: functions from the names of the   *)
(* fields the client supplied to their values.                             *)
(***************************************************************************)
PackageFields == {"id", "locationId", "trackingNumber", "recipientName", "weight",
                  "storageLocationId", "notes", "isDelivered", "pickedUpByLastName",
                  "deliveredAt", "createdAt"}

\* the columns declared notNull() without a default
RequiredFields == {"trackingNumber", "recipientName", "weight"}

\* the column defaults of a new row
ColumnDefaults ==
  [id |-> nextId, locationId |-> NULL, trackingNumber |-> NULL, recipientName |-> NULL,
   weight |-> 0, storageLocationId |-> NULL, notes |-> NULL, isDelivered |-> FALSE,
   pickedUpByLastName |-> NULL, deliveredAt |-> NoDate, createdAt |-> now]

\* object spread { ...base, ...over }
Spread(base, over) ==
  [f \in DOMAIN base \cup DOMAIN over |->
     IF f \in DOMAIN over THEN over[f] ELSE base[f]]

\* db.update(packages).set(values) applied to one row
SetColumns(row, values) ==
  [f \in DOMAIN row |-> IF f \in DOMAIN values THEN values[f] ELSE row[f]]

Has(rec, f) == f \in DOMAIN rec

\* JavaScript truthiness of a boolean field and of a text field of a body
TruthyFlag(rec, f) == Has(rec, f) /\ rec[f] = TRUE
TruthyText(rec, f) == Has(rec, f) /\ rec[f] # NULL /\ rec[f] # ""

\* before is history: the packages table when the call began
IdleBulk == [pc |-> "idle", ids |-> <<>>, safeUpdates |-> <<>>,
             locationId |-> NULL, updatedCount |-> 0, before |-> {}]

BulkIdle == bulk.pc = "idle"

\* before and beforeArchived are history: the two tables when the call began
IdleSweep == [pc |-> "idle", cutoffDate |-> NoDate, oldPackages |-> {}, pending |-> {},
              before |-> {}, beforeArchived |-> {}]

NoRequest == [op |-> "none"]

SweepIdle(s) == sweep[s].pc = "idle"

\* no multi-statement call is in flight
Quiet == BulkIdle /\ \A s \in Slots : SweepIdle(s)

\* the ids of the packages created so far: the live ones and the archived ones
EverCreated == {p.id : p \in packages} \cup {a.source : a \in archivedPackages}

(***************************************************************************)
(* POST /api/locations/:id/packages and storage.createPackage.             *)
(***************************************************************************)
\* const packageData = { ...req.body, locationId: req.params.id,
\*                       storageLocationId: req.body.storageLocationId || null };
PackageData(reqLocation, body) ==
  Spread(body, [locationId |-> reqLocation,
                storageLocationId |-> IF TruthyText(body, "storageLocationId")
                                      THEN body.storageLocationId ELSE NULL])

\* const [p] = await db.insert(packages).values(pkg).returning();
\* a missing notNull column makes the insert fail: the handler answers 500
CreatePackage(reqLocation, body, limit) ==
  /\ Cardinality(EverCreated) < limit
  /\ request' = [op |-> "create", location |-> reqLocation, body |-> body]
  /\ LET pkg == PackageData(reqLocation, body)
     IN  IF RequiredFields \subseteq DOMAIN pkg
         THEN /\ packages' = packages \cup {SetColumns(ColumnDefaults, pkg)}
              /\ nextId' = nextId + 1
              /\ response' = [status |-> 201, id |-> nextId]
         ELSE /\ response' = [status |-> 500]
              /\ UNCHANGED <<packages, nextId>>
  /\ UNCHANGED <<notPackageVars, now, bulk, archivedPackages, sweep>>

(***************************************************************************)
(* PATCH /api/locations/:id/packages/:packageId and storage.updatePackage. *)
(***************************************************************************)
\* const updateData: any = { ...pkg };
\* if (pkg.isDelivered) { updateData.deliveredAt = new Date(); }
UpdateData(pkg) ==
  IF TruthyFlag(pkg, "isDelivered") THEN Spread(pkg, [deliveredAt |-> now]) ELSE pkg

\* const [p] = await db.update(packages).set(updateData).where(eq(packages.id, id)).returning();
\* set() of no column throws; the WHERE names the id alone
updatePackage(id, pkg) ==
  {IF p.id = id THEN SetColumns(p, UpdateData(pkg)) ELSE p : p \in packages}

\* reqLocation (:id) is checked by canAccessLocation and then not used
UpdatePackage(reqLocation, packageId, body) ==
  /\ request' = [op |-> "update", location |-> reqLocation, id |-> packageId, body |-> body]
  /\ IF DOMAIN UpdateData(body) = {}
     THEN /\ response' = [status |-> 500]
          /\ UNCHANGED packages
     ELSE /\ packages' = updatePackage(packageId, body)
          /\ response' = IF \E p \in packages : p.id = packageId
                         THEN [status |-> 200, id |-> packageId]
                         ELSE [status |-> 404]
  /\ UNCHANGED <<notPackageVars, nextId, now, bulk, archivedPackages, sweep>>

(***************************************************************************)
(* PATCH /api/locations/:id/packages/bulk and storage.bulkUpdatePackages.  *)
(***************************************************************************)
\* every supplied field copied
SafeUpdatesUnfiltered(updates) ==
  IF TruthyFlag(updates, "isDelivered") THEN Spread(updates, [deliveredAt |-> now])
  ELSE updates

\* const safeUpdates = {}; the three fields copied when not undefined, and
\* deliveredAt = new Date() when updates.isDelivered is true
SafeUpdates(updates) ==
  LET delivered == IF Has(updates, "isDelivered")
                   THEN IF updates.isDelivered # FALSE
                        THEN [isDelivered |-> updates.isDelivered, deliveredAt |-> now]
                        ELSE [isDelivered |-> updates.isDelivered]
                   ELSE <<>>
      named     == IF Has(updates, "recipientName")
                   THEN [recipientName |-> updates.recipientName] ELSE <<>>
      pickedUp  == IF Has(updates, "pickedUpByLastName")
                   THEN [pickedUpByLastName |-> updates.pickedUpByLastName] ELSE <<>>
  IN  Spread(Spread(delivered, named), pickedUp)

\* the location forgotten in the WHERE
BulkMatchesById(pkgId, locationId) == {p \in packages : p.id = pkgId}

\* the rows one UPDATE of the loop matches: by id, and by location when the
\* call is scoped (if (locationId) ...)
BulkMatches(pkgId, locationId) ==
  {p \in packages : p.id = pkgId /\ (locationId # NULL => p.locationId = locationId)}

\* the handler: if (!packageIds || !Array.isArray(packageIds) || packageIds.length === 0) 400
\* bulkUpdatePackages up to its first await:
\* if (packageIds.length === 0) return 0; ... if (Object.keys(safeUpdates).length === 0) return 0;
BulkStart(reqLocation, packageIds, updates) ==
  /\ BulkIdle
  /\ request' = [op |-> "bulk", location |-> reqLocation, packageIds |-> packageIds,
                  updates |-> updates]
  /\ IF packageIds = <<>>
     THEN /\ response' = [status |-> 400]
          /\ bulk' = IdleBulk
     ELSE IF DOMAIN SafeUpdates(updates) = {}
     THEN /\ response' = [status |-> 200, updated |-> 0]
          /\ bulk' = IdleBulk
     ELSE /\ response' = [status |-> 0]
          /\ bulk' = [pc |-> "loop", ids |-> packageIds,
                      safeUpdates |-> SafeUpdates(updates),
                      locationId |-> reqLocation, updatedCount |-> 0,
                      before |-> packages]
  /\ UNCHANGED <<notPackageVars, packages, nextId, now, archivedPackages, sweep>>

\* one iteration of "for (const pkgId of packageIds)":
\* result = await db.update(packages).set(safeUpdates).where(...).returning();
\* if (result.length > 0) updatedCount++;
BulkStep ==
  /\ bulk.pc = "loop"
  /\ bulk.ids # <<>>
  /\ LET result == BulkMatches(Head(bulk.ids), bulk.locationId)
     IN  /\ packages' = {IF p \in result THEN SetColumns(p, bulk.safeUpdates) ELSE p :
                            p \in packages}
         /\ bulk' = [bulk EXCEPT !.ids = Tail(@),
                                 !.updatedCount = IF result # {} THEN @ + 1 ELSE @]
  /\ UNCHANGED <<notPackageVars, request, response, nextId, now, archivedPackages, sweep>>

\* return updatedCount;  res.json({ updated: count });
BulkFinish ==
  /\ bulk.pc = "loop"
  /\ bulk.ids = <<>>
  /\ response' = [status |-> 200, updated |-> bulk.updatedCount]
  /\ bulk' = IdleBulk
  /\ UNCHANGED <<notPackageVars, request, packages, nextId, now, archivedPackages, sweep>>

\* the UPDATE of one iteration rejects (the database refuses the statement or
\* cannot be reached): the loop has no try, so bulkUpdatePackages rejects and
\* the handler's catch answers 500; the rows updated so far stay updated
BulkFail ==
  /\ bulk.pc = "loop"
  /\ bulk.ids # <<>>
  /\ response' = [status |-> 500]
  /\ bulk' = IdleBulk
  /\ UNCHANGED <<notPackageVars, request, packages, nextId, now, archivedPackages, sweep>>

(***************************************************************************)
(* Dates.  A timestamp counts days; years have 365 days (no leap year       *)
(* falls in the span the model covers).                                    *)
(***************************************************************************)
\* days of the year before the first of each month
DaysBefore == <<0, 31, 59, 90, 120, 151, 181, 212, 243, 273, 304, 334>>

\* the day number of (year, month index, day of month), as Date's MakeDay
\* computes it: a month index outside 0..11 carries into the year, a day
\* past the end of the month runs on into the next month
MakeDay(year, month, date) ==
  LET m == year * 12 + month
  IN  (m \div 12) * 365 + DaysBefore[(m % 12) + 1] + date - 1

GetFullYear(t) == t \div 365
\* 0..11
GetMonth(t) ==
  CHOOSE m \in 0..11 :
    /\ DaysBefore[m + 1] <= t % 365
    /\ (m < 11 => t % 365 < DaysBefore[m + 2])
GetDate(t) == (t % 365) - DaysBefore[GetMonth(t) + 1] + 1

\* const cutoffDate = new Date(); cutoffDate.setMonth(cutoffDate.getMonth() - monthsOld);
CutoffDate(monthsOld) ==
  MakeDay(GetFullYear(now), GetMonth(now) - monthsOld, GetDate(now))

(***************************************************************************)
(* POST /api/archive/run and storage.archiveOldPackages.                   *)
(***************************************************************************)
\* const monthsOld = req.body.monthsOld || 2;
MonthsOld(body) ==
  IF Has(body, "monthsOld") /\ body.monthsOld # 0 THEN body.monthsOld ELSE 2

\* the cutoff date itself counted as old
IsOldInclusive(p, cutoffDate) ==
  /\ p.isDelivered = TRUE
  /\ p.deliveredAt # NoDate
  /\ p.deliveredAt <= cutoffDate

\* and(eq(packages.isDelivered, true), sql`${packages.deliveredAt} < ${cutoffDate}`)
\* (a NULL deliveredAt compares as NULL, which is not true)
IsOld(p, cutoffDate) ==
  /\ p.isDelivered = TRUE
  /\ p.deliveredAt # NoDate
  /\ p.deliveredAt < cutoffDate

\* the row inserted for a package; source is history (the package's id), not
\* a column of archived_packages
ArchivedRow(pkg) ==
  [id |-> nextId, locationId |-> pkg.locationId, trackingNumber |-> pkg.trackingNumber,
   recipientName |-> pkg.recipientName, pickedUpByLastName |-> pkg.pickedUpByLastName,
   deliveredAt |-> pkg.deliveredAt, archivedAt |-> now, source |-> pkg.id]

\* const oldPackages = await db.select().from(packages).where(...);
\* if (oldPackages.length === 0) return { archivedCount: 0 };
SweepStart(s, body) ==
  /\ SweepIdle(s)
  /\ request' = [op |-> "archive", body |-> body]
  /\ LET oldPackages == {p \in packages : IsOld(p, CutoffDate(MonthsOld(body)))}
     IN  IF oldPackages = {}
         THEN /\ response' = [status |-> 200, archivedCount |-> 0]
              /\ UNCHANGED sweep
         ELSE /\ response' = [status |-> 0]
              /\ sweep' = [sweep EXCEPT ![s] = [pc |-> "insert",
                             cutoffDate |-> CutoffDate(MonthsOld(body)),
                             oldPackages |-> oldPackages, pending |-> oldPackages,
                             before |-> packages, beforeArchived |-> archivedPackages]]
  /\ UNCHANGED <<notPackageVars, packages, archivedPackages, bulk, nextId, now>>

\* one iteration of "for (const pkg of oldPackages) await db.insert(archivedPackages)..."
\* (the SELECT has no ORDER BY: the rows come in any order)
SweepInsert(s) ==
  /\ sweep[s].pc = "insert"
  /\ \E pkg \in sweep[s].pending :
       /\ archivedPackages' = archivedPackages \cup {ArchivedRow(pkg)}
       /\ sweep' = [sweep EXCEPT ![s] =
                      IF sweep[s].pending = {pkg}
                      THEN [@ EXCEPT !.pc = "delete", !.pending = sweep[s].oldPackages]
                      ELSE [@ EXCEPT !.pending = sweep[s].pending \ {pkg}]]
  /\ nextId' = nextId + 1
  /\ UNCHANGED <<notPackageVars, request, packages, response, bulk, now>>

\* the delete statement of the loop lost: the table stays as it is
DeletePackageLost(id) == packages

\* await db.delete(packages).where(eq(packages.id, id));
DeletePackage(id) == {p \in packages : p.id # id}

\* one iteration of "for (const id of idsToDelete) await db.delete(packages)..."
SweepDelete(s) ==
  /\ sweep[s].pc = "delete"
  /\ sweep[s].pending # {}
  /\ \E pkg \in sweep[s].pending :
       /\ packages' = DeletePackage(pkg.id)
       /\ sweep' = [sweep EXCEPT ![s].pending = @ \ {pkg}]
  /\ UNCHANGED <<notPackageVars, request, archivedPackages, response, bulk, nextId, now>>

\* return { archivedCount: oldPackages.length };
SweepFinish(s) ==
  /\ sweep[s].pc = "delete"
  /\ sweep[s].pending = {}
  /\ response' = [status |-> 200, archivedCount |-> Cardinality(sweep[s].oldPackages)]
  /\ sweep' = [sweep EXCEPT ![s] = IdleSweep]
  /\ UNCHANGED <<notPackageVars, request, packages, archivedPackages, bulk, nextId, now>>

\* a statement of the sweep fails (the database rejects it or is unreachable):
\* the call throws, the handler answers 500, the statements done so far stay
SweepFail(s) ==
  /\ ~SweepIdle(s)
  /\ response' = [status |-> 500]
  /\ sweep' = [sweep EXCEPT ![s] = IdleSweep]
  /\ UNCHANGED <<notPackageVars, request, packages, archivedPackages, bulk, nextId, now>>

\* time passes: the clock moves on to a later one of the given dates
Tick(dates) ==
  /\ \E t \in dates : t > now /\ now' = t
  /\ UNCHANGED <<notPackageVars, request, packages, response, bulk, archivedPackages, sweep, nextId>>

(***************************************************************************)
(* DELETE /api/locations/:id/storage-locations/:storageId and              *)
(* storage.deleteStorageLocation.                                          *)
(***************************************************************************)
IdleRemoval == [pc |-> "idle", id |-> NULL]

\* no storage location exists and none is being deleted
NoStorage == storageLocations = {} /\ removal = IdleRemoval

\* set({ storageLocationId: null }) applied to the rows where(eq(packages.storageLocationId, id))
Unshelve(p, id) ==
  IF p.storageLocationId = id THEN SetColumns(p, [storageLocationId |-> NULL]) ELSE p

\* if (req.appUser.role === "employee") return 403;
\* deleteStorageLocation, first statement:
\* await db.update(packages).set({ storageLocationId: null }).where(...)
DeleteStorageStart(role, storageId) ==
  /\ removal.pc = "idle"
  /\ request' = [op |-> "deleteStorage", role |-> role, id |-> storageId]
  /\ IF role = "employee"
     THEN /\ response' = [status |-> 403]
          /\ UNCHANGED <<packages, removal>>
     ELSE /\ response' = [status |-> 0]
          /\ packages' = {Unshelve(p, storageId) : p \in packages}
          /\ removal' = [pc |-> "delete", id |-> storageId]
  /\ UNCHANGED <<pricingVars, tenantVars, backupVars, schedVars, storageLocations, nextId, now, bulk,
                 archivedPackages, sweep>>

\* second statement: await db.delete(storageLocations).where(eq(storageLocations.id, id));
\* return true;  res.status(204).send();
DeleteStorageRow ==
  /\ removal.pc = "delete"
  /\ storageLocations' = storageLocations \ {removal.id}
  /\ removal' = IdleRemoval
  /\ response' = [status |-> 204]
  /\ UNCHANGED <<pricingVars, tenantVars, backupVars, schedVars, packages, request, nextId, now, bulk,
                 archivedPackages, sweep>>

(***************************************************************************)
(* The backup scheduler: startBackupScheduler, stopBackupScheduler,        *)
(* initBackupScheduler and the settings routes that call them.  A handler  *)
(* awaits its database statement and calls the scheduler when the          *)
(* statement has answered: other handlers run in between.                  *)
(***************************************************************************)
\* let backupInterval: NodeJS.Timeout | null = null;
NoTimer == 0

NoCall == [call |-> "none", frequencyHours |-> 0, answer |-> FALSE]

\* the column defaults of backup_settings, which an absent row reads as
DefaultSettings == [enabled |-> FALSE, apiKeyConfigured |-> FALSE, frequencyHours |-> 24]

\* the scheduler as the module is loaded
NoScheduler ==
  /\ settings = DefaultSettings
  /\ backupInterval = NoTimer
  /\ timers = {}
  /\ timerSeq = 0
  /\ pending = [s \in Slots |-> NoCall]
  /\ booted = FALSE
  /\ adminCalls = 0
  /\ started = [on |-> FALSE, frequencyHours |-> 0]

\* the previous timer left armed
ClearNothing(armed, handle) == armed

\* clearInterval(backupInterval)
ClearInterval(armed, handle) == {t \in armed : t.id # handle}

\* stopBackupScheduler forgetting the handle without clearing the timer
TimersLeftArmed == timers

\* stopBackupScheduler: if (backupInterval) { clearInterval(backupInterval); ... }
StoppedTimers ==
  IF backupInterval # NoTimer THEN ClearInterval(timers, backupInterval) ELSE timers

\* the scheduler call of the handler in slot s, then its answer:
\* startBackupScheduler(frequencyHours): stopBackupScheduler();
\*   backupInterval = setInterval(async () => {...}, intervalMs);
\* stopBackupScheduler(): clearInterval(backupInterval); backupInterval = null;
SchedulerCall(s) ==
  /\ pending[s].call # "none"
  /\ IF pending[s].call = "start"
     THEN /\ timers' = StoppedTimers \cup
                          {[id |-> timerSeq + 1, frequencyHours |-> pending[s].frequencyHours]}
          /\ backupInterval' = timerSeq + 1
          /\ timerSeq' = timerSeq + 1
          /\ started' = [on |-> TRUE, frequencyHours |-> pending[s].frequencyHours]
     ELSE /\ timers' = StoppedTimers
          /\ backupInterval' = NoTimer
          /\ timerSeq' = timerSeq
          /\ started' = [on |-> FALSE, frequencyHours |-> 0]
  /\ pending' = [pending EXCEPT ![s] = NoCall]
  /\ response' = IF pending[s].answer THEN [status |-> 200] ELSE response
  /\ UNCHANGED <<pricingVars, tenantVars, backupVars, storageVars, settings, booted, adminCalls, nextId, now,
                 packages, request, bulk, archivedPackages, sweep>>

\* POST /api/admin/backup/toggle
ToggleBackups(s, enabled, limit) ==
  /\ pending[s].call = "none"
  /\ adminCalls < limit
  /\ adminCalls' = adminCalls + 1
  /\ IF enabled /\ (~settings.apiKeyConfigured \/ ~apiKey)
     THEN /\ response' = [status |-> 400]
          /\ UNCHANGED <<settings, pending>>
     ELSE /\ settings' = [settings EXCEPT !.enabled = enabled]
          /\ pending' = [pending EXCEPT ![s] =
                           IF enabled
                           THEN [call |-> "start", frequencyHours |-> settings.frequencyHours,
                                 answer |-> TRUE]
                           ELSE [call |-> "stop", frequencyHours |-> 0, answer |-> TRUE]]
          /\ response' = [status |-> 0]
  /\ UNCHANGED <<pricingVars, tenantVars, backupVars, storageVars, backupInterval, timers, timerSeq, booted, started,
                 nextId, now, packages, request, bulk, archivedPackages, sweep>>

\* const updates = {}; frequencyHours and enabled copied when not undefined
SettingsUpdates(body) ==
  [f \in DOMAIN body \cap {"frequencyHours", "enabled"} |-> body[f]]

\* PATCH /api/admin/backup/settings
PatchSettings(s, body, limit) ==
  /\ pending[s].call = "none"
  /\ adminCalls < limit
  /\ adminCalls' = adminCalls + 1
  /\ settings' = SetColumns(settings, SettingsUpdates(body))
  /\ IF Has(body, "frequencyHours") /\ settings'.enabled
     THEN /\ pending' = [pending EXCEPT ![s] =
                           [call |-> "start", frequencyHours |-> settings'.frequencyHours,
                            answer |-> TRUE]]
          /\ response' = [status |-> 0]
     ELSE /\ response' = [status |-> 200]
          /\ UNCHANGED pending
  /\ UNCHANGED <<pricingVars, tenantVars, backupVars, storageVars, backupInterval, timers, timerSeq, booted, started,
                 nextId, now, packages, request, bulk, archivedPackages, sweep>>

\* initBackupScheduler, run by setTimeout 5 s after the routes are registered:
\* const settings = await storage.getBackupSettings();
\* if (settings?.enabled && settings.apiKeyConfigured && process.env.JSONBIN_API_KEY) start
InitBackupScheduler(s) ==
  /\ ~booted
  /\ pending[s].call = "none"
  /\ booted' = TRUE
  /\ pending' = IF settings.enabled /\ settings.apiKeyConfigured /\ apiKey
                 THEN [pending EXCEPT ![s] =
                         [call |-> "start", frequencyHours |-> settings.frequencyHours,
                          answer |-> FALSE]]
                 ELSE pending
  /\ UNCHANGED <<pricingVars, tenantVars, backupVars, storageVars, packageVars, settings, backupInterval, timers,
                 timerSeq, adminCalls, started, nextId, now>>

\* an armed timer fires: its callback calls runBackupForAllLocations()
ScheduledTick(r, limit) ==
  /\ timers # {}
  /\ StartRun(r, "sched", limit)

(***************************************************************************)
(* storage.ts: calculatePackageCost.  A decimal column arrives as text, a  *)
(* sequence of characters; a number counts hundredths (the columns have    *)
(* scale 2), and a cost counts ten-thousandths, so that weight times rate  *)
(* is exact.                                                               *)
(***************************************************************************)
\* hundredths in a unit: decimal(..., { precision: 10, scale: 2 })
Hundred == 100

\* the number no comparison holds of
NaN == -1000000

DigitChars == <<"0", "1", "2", "3", "4", "5", "6", "7", "8", "9">>
IsDigit(c) == \E d \in DOMAIN DigitChars : DigitChars[d] = c
DigitOf(c) == (CHOOSE d \in DOMAIN DigitChars : DigitChars[d] = c) - 1

RECURSIVE LeadingDigits(_)
\* the longest prefix of digits
LeadingDigits(text) ==
  IF text # <<>> /\ IsDigit(Head(text))
  THEN <<Head(text)>> \o LeadingDigits(Tail(text))
  ELSE <<>>

RECURSIVE DigitsValue(_)
DigitsValue(digits) ==
  IF digits = <<>> THEN 0
  ELSE 10 * DigitsValue(SubSeq(digits, 1, Len(digits) - 1)) + DigitOf(digits[Len(digits)])

\* the first two fraction digits, as hundredths
FractionValue(digits) ==
  (IF Len(digits) >= 1 THEN 10 * DigitOf(digits[1]) ELSE 0)
    + (IF Len(digits) >= 2 THEN DigitOf(digits[2]) ELSE 0)

\* parseFloat: an optional sign, digits, an optional point and digits; what
\* follows is ignored; NaN when no digit was read
ParseFloat(text) ==
  LET signed == text # <<>> /\ Head(text) \in {"-", "+"}
      body == IF signed THEN Tail(text) ELSE text
      whole == LeadingDigits(body)
      rest == SubSeq(body, Len(whole) + 1, Len(body))
      fraction == IF rest # <<>> /\ Head(rest) = "." THEN LeadingDigits(Tail(rest))
                  ELSE <<>>
      magnitude == Hundred * DigitsValue(whole) + FractionValue(fraction)
  IN  IF whole = <<>> /\ fraction = <<>> THEN NaN
      ELSE IF signed /\ Head(text) = "-" THEN 0 - magnitude
      ELSE magnitude

\* a * b of two numbers, as a cost
Times(a, b) == IF a = NaN \/ b = NaN THEN NaN ELSE a * b

\* a number returned as a cost
AsCost(a) == IF a = NaN THEN NaN ELSE a * Hundred

\* a nullable text column: <<>> for null, <<text>> for a value; a text is
\* truthy when it is not the empty string
Truthy(column) == column # <<>> /\ column[1] # <<>>

\* weight >= min && weight < max
TierMatchesBelowMax(weight, tier) ==
  LET min == ParseFloat(tier.minWeight)
      max == ParseFloat(tier.maxWeight)
  IN  /\ weight # NaN /\ min # NaN /\ max # NaN
      /\ weight >= min /\ weight < max

\* weight >= min && weight <= max
TierMatches(weight, tier) ==
  LET min == ParseFloat(tier.minWeight)
      max == ParseFloat(tier.maxWeight)
  IN  /\ weight # NaN /\ min # NaN /\ max # NaN
      /\ weight >= min /\ weight <= max

RECURSIVE TierLoop(_, _)
\* for (const tier of tiers) { ... return parseFloat(tier.price); }:
\* <<price>> when the loop returns, <<>> when it falls through
TierLoop(weight, tiers) ==
  IF tiers = <<>> THEN <<>>
  ELSE IF TierMatches(weight, Head(tiers)) THEN <<ParseFloat(Head(tiers).price)>>
  ELSE TierLoop(weight, Tail(tiers))

RECURSIVE InsertTier(_, _)
\* the place of tier t among tiers that came before it in the list: after
\* every tier whose maxWeight is not smaller (the sort is stable)
InsertTier(t, sorted) ==
  IF sorted = <<>> THEN <<t>>
  ELSE IF ParseFloat(Head(sorted).maxWeight) >= ParseFloat(t.maxWeight)
  THEN <<Head(sorted)>> \o InsertTier(t, Tail(sorted))
  ELSE <<t>> \o sorted

RECURSIVE SortedTiers(_)
\* [...tiers].sort((a, b) => parseFloat(b.maxWeight) - parseFloat(a.maxWeight))
SortedTiers(tiers) ==
  IF tiers = <<>> THEN <<>>
  ELSE InsertTier(tiers[Len(tiers)], SortedTiers(SubSeq(tiers, 1, Len(tiers) - 1)))

calculatePackageCost(weight, pricingEnabled, pricingType, perPoundRate, tiers) ==
  IF ~pricingEnabled THEN 0
  ELSE IF pricingType = "per_pound" /\ Truthy(perPoundRate)
  THEN Times(weight, ParseFloat(perPoundRate[1]))
  ELSE IF pricingType = "range_based" /\ Len(tiers) > 0
  THEN LET found == TierLoop(weight, tiers)
           sortedTiers == SortedTiers(tiers)
           top == ParseFloat(sortedTiers[1].maxWeight)
       IN  IF found # <<>> THEN AsCost(found[1])
           ELSE IF weight # NaN /\ top # NaN /\ weight > top
           THEN AsCost(ParseFloat(sortedTiers[1].price))
           ELSE 0
  ELSE 0

\* no call of calculatePackageCost is made
NoQuote == [pc |-> "none"]

\* calculatePackageCost(parseFloat(pkg.weight), location.pricingEnabled,
\*   location.pricingType, location.perPoundRate, tiers) returns; the function
\* has no throw statement and none of its operations throws
CalculateCost ==
  /\ quote.pc = "called"
  /\ quote' = [quote EXCEPT
                 !.pc = "returned",
                 !.threw = FALSE,
                 !.cost = calculatePackageCost(ParseFloat(quote.weight),
                            quote.pricingEnabled, quote.pricingType,
                            quote.perPoundRate, quote.tiers)]
  /\ UNCHANGED <<nextId, now, backupVars, packageVars, storageVars, schedVars, tenantVars>>

(***************************************************************************)
(* storage.ts: searchPackages.  Recipient names, tracking numbers and the  *)
(* search term are texts: sequences of characters.                         *)
(***************************************************************************)
\* String.prototype.toLowerCase
ToLowerCase(text) ==
  LET upper == <<"A", "B", "C", "D", "E", "F", "G", "H", "I", "J", "K", "L", "M",
                 "N", "O", "P", "Q", "R", "S", "T", "U", "V", "W", "X", "Y", "Z">>
      lower == <<"a", "b", "c", "d", "e", "f", "g", "h", "i", "j", "k", "l", "m",
                 "n", "o", "p", "q", "r", "s", "t", "u", "v", "w", "x", "y", "z">>
  IN  [i \in DOMAIN text |->
         IF \E k \in DOMAIN upper : upper[k] = text[i]
         THEN lower[CHOOSE k \in DOMAIN upper : upper[k] = text[i]]
         ELSE text[i]]

\* String.prototype.trim: the text without its leading and trailing blanks
Trim(text) ==
  LET blanks == {i \in DOMAIN text : text[i] # " "}
  IN  IF blanks = {} THEN <<>>
      ELSE SubSeq(text, CHOOSE i \in blanks : \A j \in blanks : i <= j,
                        CHOOSE i \in blanks : \A j \in blanks : i >= j)

\* column ILIKE '%' + searchTerm + '%'
ILike(column, searchTerm) ==
  LET text == ToLowerCase(column)
      term == ToLowerCase(searchTerm)
  IN  \E i \in 0..(Len(text) - Len(term)) : SubSeq(text, i + 1, i + Len(term)) = term

\* const recipientKey = pkg.recipientName.toLowerCase().trim();
RecipientKey(pkg) == Trim(ToLowerCase(pkg.recipientName))

\* if (!recipientGroups.has(recipientKey)) recipientGroups.set(recipientKey, []);
\* recipientGroups.get(recipientKey)!.push(pkgWithDetails);
\* a Map keeps its keys in the order of their insertion
GroupPush(groups, key, pkg) ==
  IF \E i \in DOMAIN groups : groups[i].key = key
  THEN [i \in DOMAIN groups |->
          IF groups[i].key = key
          THEN [groups[i] EXCEPT !.packages = Append(@, pkg)]
          ELSE groups[i]]
  ELSE Append(groups, [key |-> key, packages |-> <<pkg>>])

RECURSIVE RecipientGroups(_, _)
\* for (const pkg of pkgs) { ... }
RecipientGroups(pkgs, groups) ==
  IF pkgs = <<>> THEN groups
  ELSE RecipientGroups(Tail(pkgs), GroupPush(groups, RecipientKey(Head(pkgs)), Head(pkgs)))

RECURSIVE TotalCost(_)
\* .reduce((sum, p) => sum + (p.calculatedCost || 0), 0)
TotalCost(pkgs) ==
  IF pkgs = <<>> THEN 0
  ELSE (IF Head(pkgs).calculatedCost = NaN THEN 0 ELSE Head(pkgs).calculatedCost)
         + TotalCost(Tail(pkgs))

\* every package of the group taken as pending
PendingAll(recipientPackages) == recipientPackages

\* recipientPackages.filter((p) => !p.isDelivered)
Pending(recipientPackages) == SelectSeq(recipientPackages, LAMBDA p : ~p.isDelivered)

\* recipientSummaries.push({ recipientName: displayName, ... })
RecipientSummary(recipientPackages) ==
  [recipientName |-> recipientPackages[1].recipientName,
   totalPackages |-> Len(recipientPackages),
   pendingPackages |-> Len(Pending(recipientPackages)),
   deliveredPackages |-> Len(SelectSeq(recipientPackages, LAMBDA p : p.isDelivered)),
   totalCost |-> TotalCost(Pending(recipientPackages)),
   packages |-> recipientPackages]

\* const tooManyRecipients = uniqueRecipients.length > 2
TooManyAboveTwo(uniqueRecipients) == Len(uniqueRecipients) > 2

\* const tooManyRecipients = uniqueRecipients.length > 3;
TooMany(uniqueRecipients) == Len(uniqueRecipients) > 3

\* searchPackages(locationId, searchTerm) for a location with the given
\* pricing: <<>> for null, <<result>> for a result
searchPackages(locationId, searchTerm, location) ==
  LET pkgs == SortDescBy({p \in packages :
                            /\ p.locationId = locationId
                            /\ \/ ILike(p.recipientName, searchTerm)
                               \/ ILike(p.trackingNumber, searchTerm)}, 0)
      packagesWithDetails ==
        [i \in DOMAIN pkgs |->
           Spread(pkgs[i],
                  [calculatedCost |->
                     calculatePackageCost(ParseFloat(pkgs[i].weight),
                       location.pricingEnabled, location.pricingType,
                       location.perPoundRate, location.pricingTiers)])]
      recipientGroups == RecipientGroups(packagesWithDetails, <<>>)
  IN  IF Len(pkgs) = 0 THEN <<>>
      ELSE << [recipientSummaries |->
                 [i \in DOMAIN recipientGroups |->
                    RecipientSummary(recipientGroups[i].packages)],
               tooManyRecipients |-> TooMany(recipientGroups),
               allPackages |-> packagesWithDetails] >>

\* GET /api/locations/:id/search/:query
\*   const summary = await storage.searchPackages(req.params.id, req.params.query);
\*   res.json(summary);
SearchPackages(locationId, query, location) ==
  /\ request.op = "none"
  /\ request' = [op |-> "search", locationId |-> locationId, query |-> query]
  /\ response' = [status |-> 200, summary |-> searchPackages(locationId, query, location)]
  /\ UNCHANGED <<notPackageVars, nextId, now, packages, bulk, archivedPackages, sweep>>

(***************************************************************************)
(* routes.ts: the locations table, its suspension and deletion, and the    *)
(* middleware canAccessLocation in front of the location-scoped routes.    *)
(***************************************************************************)
\* a row of locations; the name of a location is its id
LocationRow(l, suspended) == [id |-> l, name |-> l, isSuspended |-> suspended]

\* every location exists and none is suspended; no request is being served
NoTenants ==
  /\ locations = {LocationRow(l, FALSE) : l \in Locations}
  /\ deletion = [pc |-> "idle", id |-> NULL]

\* db.update(locations).set({ isSuspended }).where(eq(locations.id, id)).returning()
\* 404 when no row was updated
SetSuspended(l, suspended) ==
  /\ request' = [op |-> IF suspended THEN "suspend" ELSE "unsuspend", location |-> l]
  /\ locations' = {IF row.id = l THEN LocationRow(l, suspended) ELSE row : row \in locations}
  /\ response' = IF \E row \in locations : row.id = l
                 THEN [status |-> 200] ELSE [status |-> 404]
  /\ UNCHANGED <<nextId, now, backupVars, storageVars, schedVars, pricingVars,
                 packages, bulk, archivedPackages, sweep, deletion>>

\* GET /api/auth/app-user: 403 LOCATION_SUSPENDED for a user, not an admin,
\* whose location is suspended
GetAppUser(user) ==
  /\ request' = [op |-> "appUser"]
  /\ response' =
       IF /\ user.locationId # NULL /\ user.role # "admin"
          /\ \E row \in locations : row.id = user.locationId /\ row.isSuspended
       THEN [status |-> 403] ELSE [status |-> 200]
  /\ UNCHANGED <<nextId, now, backupVars, storageVars, schedVars, pricingVars,
                 packages, bulk, archivedPackages, sweep, tenantVars>>

\* canAccessLocation: if (appUser.role === "admin") next();
\* if (appUser.locationId !== locationId) 403; else next()
CanAccessLocation(user, locationId) ==
  \/ user.role = "admin"
  \/ user.locationId = locationId

\* canAccessLocation answers 403, the route's handler is not run
AccessDenied(user, locationId) ==
  /\ ~CanAccessLocation(user, locationId)
  /\ request' = [op |-> "denied", location |-> locationId]
  /\ response' = [status |-> 403]
  /\ UNCHANGED <<nextId, now, backupVars, storageVars, schedVars, pricingVars,
                 packages, bulk, archivedPackages, sweep, tenantVars>>

\* DELETE /api/admin/locations/:id up to its first await after the checks:
\* 404 without the row, 400 when confirmName is not the location's name
DeleteLocationStart(l, confirmName) ==
  /\ deletion.pc = "idle"
  /\ request' = [op |-> "deleteLocation", location |-> l, confirmName |-> confirmName]
  /\ IF ~\E row \in locations : row.id = l
     THEN response' = [status |-> 404] /\ UNCHANGED deletion
     ELSE IF confirmName # (CHOOSE row \in locations : row.id = l).name
     THEN response' = [status |-> 400] /\ UNCHANGED deletion
     ELSE /\ response' = [status |-> 0]
          /\ deletion' = [pc |-> IF apiKey THEN "snapshot" ELSE "delete", id |-> l]
  /\ UNCHANGED <<nextId, now, backupVars, storageVars, schedVars, pricingVars,
                 packages, bulk, archivedPackages, sweep, locations>>

\* a snapshot that fails ends the request with 500
FinalSnapshotBlocking(outcome) ==
  /\ deletion.pc = "snapshot"
  /\ remoteBins' = IF outcome = "ok" THEN remoteBins \cup {nextId} ELSE remoteBins
  /\ nextId' = IF outcome = "ok" THEN nextId + 1 ELSE nextId
  /\ deletion' = IF outcome = "ok" THEN [deletion EXCEPT !.pc = "delete"]
                 ELSE [pc |-> "idle", id |-> NULL]
  /\ response' = IF outcome = "ok" THEN response ELSE [status |-> 500]
  /\ UNCHANGED <<now, storageVars, schedVars, pricingVars, apiKey, locationBackups,
                 deleteRequested, createdBins, lastBackupAt, run, runsStarted,
                 insertedRows, packages, request, bulk, archivedPackages, sweep,
                 locations>>

\* try { backupData = await getLocationDataForBackup(id); await fetch(POST
\* https://api.jsonbin.io/v3/b, "DELETED_" + name) } catch { console.error }
\* the response is not inspected
FinalSnapshot(outcome) ==
  /\ deletion.pc = "snapshot"
  /\ remoteBins' = IF outcome = "ok" THEN remoteBins \cup {nextId} ELSE remoteBins
  /\ nextId' = IF outcome = "ok" THEN nextId + 1 ELSE nextId
  /\ deletion' = [deletion EXCEPT !.pc = "delete"]
  /\ UNCHANGED <<now, storageVars, schedVars, pricingVars, apiKey, locationBackups,
                 deleteRequested, createdBins, lastBackupAt, run, runsStarted,
                 insertedRows, packageVars, locations>>

\* await storage.deleteLocation(req.params.id); res.status(204).send();
DeleteLocationRow ==
  /\ deletion.pc = "delete"
  /\ locations' = {row \in locations : row.id # deletion.id}
  /\ deletion' = [pc |-> "idle", id |-> NULL]
  /\ response' = [status |-> 204]
  /\ UNCHANGED <<nextId, now, backupVars, storageVars, schedVars, pricingVars,
                 packages, request, bulk, archivedPackages, sweep>>

(***************************************************************************)
(* Initial states of the backup rotation.                                  *)
(***************************************************************************)
LocationIndex(l) == CHOOSE i \in DOMAIN AllLocations : AllLocations[i] = l

\* count[l] rows for each location l, left by earlier rotations, each naming a
\* bin the remote store holds
InitialRow(l, j) ==
  LET n == (LocationIndex(l) - 1) * MaxBackups + j
  IN  [id |-> n, locationId |-> l,
       binId |-> Len(AllLocations) * MaxBackups + n, createdAt |-> n]

InitialRows(count) ==
  UNION {{InitialRow(l, j) : j \in 1..count[l]} : l \in Locations}

\* no package request has been made, no storage location exists
InitNoPackagesNoScheduler ==
  /\ packages = {}
  /\ archivedPackages = {}
  /\ request = NoRequest
  /\ response = [status |-> 0]
  /\ bulk = IdleBulk
  /\ sweep = [s \in Slots |-> IdleSweep]
  /\ NoStorage

\* no package request has been made
InitNoPackages ==
  /\ packages = {}
  /\ archivedPackages = {}
  /\ request = NoRequest
  /\ response = [status |-> 0]
  /\ bulk = IdleBulk
  /\ sweep = [s \in Slots |-> IdleSweep]
  /\ quote = NoQuote
  /\ NoTenants
  /\ NoStorage
  /\ NoScheduler

InitBackupWith(rows, key) ==
  /\ InitNoPackages
  /\ apiKey = key
  /\ locationBackups = rows
  /\ insertedRows = rows
  /\ remoteBins = {b.binId : b \in rows}
  /\ createdBins = {b.binId : b \in rows}
  /\ deleteRequested = {}
  /\ nextId = 2 * Len(AllLocations) * MaxBackups + 1
  /\ now = Len(AllLocations) * MaxBackups
  /\ lastBackupAt = NoDate
  /\ run = [r \in Slots |-> IdleRun]
  /\ runsStarted = 0

\* every location holds at most 5 rows
InitBackup ==
  \E count \in [Locations -> 0..MaxBackups], key \in BOOLEAN :
    InitBackupWith(InitialRows(count), key)

\* no location holds a backup
InitRotation == InitBackupWith({}, TRUE)

(***************************************************************************)
(* Next-state relations of the backup rotation.                            *)
(***************************************************************************)
\* a step of the run in slot r, the remote store answering with one of outcomes
RunStep(r, outcomes) ==
  \/ BuildExport(r)
  \/ ReadExisting(r)
  \/ \E o \in outcomes : RemoteDelete(r, o)
  \/ FindOldest(r)
  \/ DeleteRow(r)
  \/ \E o \in outcomes : RemoteCreate(r, o)
  \/ AddBackup(r)
  \/ UpdateLastBackup(r)

\* runs one at a time: the timer's tick or the admin's request starts a run
\* only when none is in flight
NextBackup ==
  \/ \E k \in Kinds : StartRun(1, k, MaxRuns)
  \/ RunStep(1, Outcomes)

SpecBackup == InitBackup /\ [][NextBackup]_vars

\* successful runs one at a time, from empty tables
NextRotation ==
  \/ \E k \in Kinds : StartRun(1, k, MaxRotations)
  \/ RunStep(1, {"ok"})

SpecRotation == InitRotation /\ [][NextRotation]_vars

\* two runs may overlap; every remote call succeeds
NextConcurrent ==
  \/ \E r \in Slots, k \in Kinds : StartRun(r, k, MaxConcRuns)
  \/ \E r \in Slots : RunStep(r, {"ok"})

SpecConcurrent == InitBackup /\ [][NextConcurrent]_vars

\* runs one at a time in which any statement of a location's iteration may fail
MaxFailRuns == 2

NextFailures ==
  \/ \E k \in Kinds : StartRun(1, k, MaxFailRuns)
  \/ RunStep(1, Outcomes)
  \/ StepFails(1)

SpecFailures == InitBackup /\ [][NextFailures]_vars

(***************************************************************************)
(* Pricing: one call of calculatePackageCost on arguments of bounded sets. *)
(***************************************************************************)
\* tiers of a location
MaxTiers == 2

\* packages.weight as stored, and as it is when the column holds no number
WeightTexts ==
  {<<"3">>, <<"5", ".", "0", "0">>, <<"7">>, <<"1", "2">>,
   <<"0">>, <<"-", "1">>, <<"a", "b", "c">>}

\* locations.perPoundRate: null, the empty text, or a decimal
RateColumns == {<<>>, << <<>> >>, << <<"2", ".", "5", "0">> >>, << <<"0">> >>}

PricingTypes == {NULL, "per_pound", "range_based"}

Tier(min, max, price) == [minWeight |-> min, maxWeight |-> max, price |-> price]

\* pricing_tiers rows: two that share the bound 5, one that spans both and
\* shares the greatest maxWeight, one whose minWeight is not a number
TierRows ==
  {Tier(<<"0">>, <<"5">>, <<"5">>),
   Tier(<<"5">>, <<"1", "0">>, <<"8">>),
   Tier(<<"0", ".", "0", "0">>, <<"1", "0", ".", "0", "0">>, <<"3", ".", "2", "5">>),
   Tier(<<"x">>, <<"6">>, <<"9">>)}

TierLists == UNION {[1..n -> TierRows] : n \in 0..MaxTiers}

InitPricing ==
  /\ InitNoPackagesNoScheduler
  /\ NoScheduler
  /\ NoTenants
  /\ \E w \in WeightTexts, e \in BOOLEAN, ty \in PricingTypes,
        rate \in RateColumns, ts \in TierLists :
       quote = [pc |-> "called", weight |-> w, pricingEnabled |-> e,
                pricingType |-> ty, perPoundRate |-> rate, tiers |-> ts,
                threw |-> FALSE, cost |-> 0]
  /\ apiKey = FALSE
  /\ locationBackups = {}
  /\ insertedRows = {}
  /\ remoteBins = {}
  /\ createdBins = {}
  /\ deleteRequested = {}
  /\ nextId = 1
  /\ now = 0
  /\ lastBackupAt = NoDate
  /\ run = [r \in Slots |-> IdleRun]
  /\ runsStarted = 0

NextPricing == CalculateCost

SpecPricing == InitPricing /\ [][NextPricing]_vars

(***************************************************************************)
(* Search: one search of a location's packages.                            *)
(***************************************************************************)
\* packages of the searched location
MaxSearchPkgs == 4

\* recipient names as typed at the counter: two spellings of one recipient
\* and three other recipients
RecipientNames ==
  {<<"J", "o">>, <<"j", "o", " ">>, <<"L", "o">>, <<"B", "o">>, <<"M", "o">>}

SearchTerms == {<<"O">>, <<"j">>, <<"z">>}

\* the i-th package created: of location "A", and one more of location "B"
SearchRow(i, name, delivered) ==
  [id |-> i, locationId |-> IF i > MaxSearchPkgs THEN "B" ELSE "A",
   trackingNumber |-> <<"T", DigitChars[i + 1]>>, recipientName |-> name,
   weight |-> IF i % 2 = 1 THEN <<"3">> ELSE <<"1", "2">>,
   isDelivered |-> delivered, createdAt |-> i]

\* the searched location: per-pound pricing
SearchLocation ==
  [pricingEnabled |-> TRUE, pricingType |-> "per_pound",
   perPoundRate |-> << <<"2", ".", "5", "0">> >>, pricingTiers |-> <<>>]

InitSearch ==
  /\ \E name \in [1..MaxSearchPkgs -> RecipientNames], delivered \in SUBSET {1, 2} :
       packages = {SearchRow(i, name[i], i \in delivered) : i \in 1..MaxSearchPkgs}
                    \cup {SearchRow(MaxSearchPkgs + 1, <<"J", "o">>, FALSE)}
  /\ archivedPackages = {}
  /\ request = NoRequest
  /\ response = [status |-> 0]
  /\ bulk = IdleBulk
  /\ sweep = [s \in Slots |-> IdleSweep]
  /\ quote = NoQuote
  /\ NoTenants
  /\ NoStorage
  /\ NoScheduler
  /\ nextId = MaxSearchPkgs + 2
  /\ now = MaxSearchPkgs + 1
  /\ apiKey = FALSE
  /\ locationBackups = {}
  /\ insertedRows = {}
  /\ remoteBins = {}
  /\ createdBins = {}
  /\ deleteRequested = {}
  /\ lastBackupAt = NoDate
  /\ run = [r \in Slots |-> IdleRun]
  /\ runsStarted = 0

NextSearch == \E l \in Locations, term \in SearchTerms : SearchPackages(l, term, SearchLocation)

SpecSearch == InitSearch /\ [][NextSearch]_vars

(***************************************************************************)
(* The scheduler under settings requests, with its runs.                   *)
(***************************************************************************)
\* settings requests received
MaxAdminCalls == 3
\* timer callbacks run
MaxTicks == 2
\* settings requests received, and timer callbacks run, while runs overlap
MaxOverlapCalls == 1
MaxOverlapTicks == 2

\* the backup_settings row at startup
SettingsRows ==
  {[enabled |-> e, apiKeyConfigured |-> c, frequencyHours |-> 24] : e, c \in BOOLEAN}

\* bodies of PATCH /api/admin/backup/settings
SettingsBodies ==
  {[frequencyHours |-> 12], [frequencyHours |-> 24, enabled |-> TRUE], [enabled |-> FALSE]}

\* every location holds 5 backups: each run evicts
FullRows == InitialRows([l \in Locations |-> MaxBackups])

InitScheduler ==
  \E key \in BOOLEAN, row \in SettingsRows :
    /\ InitNoPackagesNoScheduler
    /\ quote = NoQuote
    /\ NoTenants
    /\ settings = row
    /\ backupInterval = NoTimer
    /\ timers = {}
    /\ timerSeq = 0
    /\ pending = [s \in Slots |-> NoCall]
    /\ booted = FALSE
    /\ adminCalls = 0
    /\ started = [on |-> FALSE, frequencyHours |-> 0]
    /\ apiKey = key
    /\ locationBackups = FullRows
    /\ insertedRows = FullRows
    /\ remoteBins = {b.binId : b \in FullRows}
    /\ createdBins = {b.binId : b \in FullRows}
    /\ deleteRequested = {}
    /\ nextId = 2 * Len(AllLocations) * MaxBackups + 1
    /\ now = Len(AllLocations) * MaxBackups
    /\ lastBackupAt = NoDate
    /\ run = [r \in Slots |-> IdleRun]
    /\ runsStarted = 0

\* settings requests, the startup initialisation and timer ticks in any
\* order; a tick comes when the run of the tick before it has finished
NextTimers ==
  \/ \E s \in Slots : InitBackupScheduler(s)
  \/ \E s \in Slots, enabled \in BOOLEAN : ToggleBackups(s, enabled, MaxAdminCalls)
  \/ \E s \in Slots, body \in SettingsBodies : PatchSettings(s, body, MaxAdminCalls)
  \/ \E s \in Slots : SchedulerCall(s)
  \/ ScheduledTick(1, MaxTicks)
  \/ RunStep(1, {"ok"})

SpecTimers == InitScheduler /\ [][NextTimers]_vars

\* the same, a tick coming also while the run of an earlier tick is in flight
NextScheduler ==
  \/ \E s \in Slots : InitBackupScheduler(s)
  \/ \E s \in Slots, enabled \in BOOLEAN : ToggleBackups(s, enabled, MaxOverlapCalls)
  \/ \E s \in Slots, body \in SettingsBodies : PatchSettings(s, body, MaxOverlapCalls)
  \/ \E s \in Slots : SchedulerCall(s)
  \/ \E r \in Slots : ScheduledTick(r, MaxOverlapTicks)
  \/ \E r \in Slots : RunStep(r, {"ok"})

SpecScheduler == InitScheduler /\ [][NextScheduler]_vars

(***************************************************************************)
(* The package lifecycle: requests served one at a time.                   *)
(***************************************************************************)
\* packages created in a lifecycle behaviour
MaxPkgs == 2
\* packages created in an archive behaviour
MaxArchivePkgs == 2

Date(year, month, day) == MakeDay(year, month - 1, day)

\* the dates the clock takes: 31 Jan, 31 Mar and 1 May of year 1
Dates == {Date(1, 1, 31), Date(1, 3, 31), Date(1, 5, 1)}

\* bodies of POST /api/locations/:id/packages
CreateBodies ==
  { [trackingNumber |-> "T1", recipientName |-> "Jane", weight |-> 2],
    [trackingNumber |-> "T1", recipientName |-> "Jane", weight |-> 2, isDelivered |-> TRUE],
    [recipientName |-> "Jane", weight |-> 2] }

\* the bodies that carry every required column
StorableBodies == {body \in CreateBodies : RequiredFields \subseteq DOMAIN body}

\* bodies of PATCH /api/locations/:id/packages/:packageId
DeliverBodies ==
  { [isDelivered |-> TRUE, pickedUpByLastName |-> "Doe"],
    [isDelivered |-> FALSE] }

UpdateBodies == DeliverBodies \cup {[recipientName |-> "Bob"], <<>>}

\* "updates" of PATCH /api/locations/:id/packages/bulk
BulkUpdates ==
  { [isDelivered |-> TRUE, pickedUpByLastName |-> "Doe"],
    [isDelivered |-> FALSE],
    [recipientName |-> "Bob"],
    [pickedUpByLastName |-> "Doe", weight |-> 9, locationId |-> "B"],
    [weight |-> 9, trackingNumber |-> "T9", locationId |-> "B",
     storageLocationId |-> "S9", notes |-> "n", deliveredAt |-> 0] }

\* bodies of POST /api/archive/run
ArchiveBodies == {<<>>, [monthsOld |-> 0], [monthsOld |-> 1], [monthsOld |-> 3]}

\* the package ids a request may name: those of the live packages, and an id
\* no package has
UnknownId == 0
KnownIds == {p.id : p \in packages} \cup {UnknownId}

IdLists(ids) ==
  {<<>>} \cup {<<a>> : a \in ids} \cup {<<a, b>> : a \in ids, b \in ids}

InitPackages ==
  /\ packages = {}
  /\ archivedPackages = {}
  /\ request = NoRequest
  /\ response = [status |-> 0]
  /\ bulk = IdleBulk
  /\ sweep = [s \in Slots |-> IdleSweep]
  /\ quote = NoQuote
  /\ NoTenants
  /\ NoStorage
  /\ NoScheduler
  /\ nextId = 1
  /\ now = Date(1, 1, 31)
  /\ apiKey = FALSE
  /\ locationBackups = {}
  /\ insertedRows = {}
  /\ remoteBins = {}
  /\ createdBins = {}
  /\ deleteRequested = {}
  /\ lastBackupAt = NoDate
  /\ run = [r \in Slots |-> IdleRun]
  /\ runsStarted = 0

NextPackages ==
  \/ Quiet /\ \E l \in Locations, body \in CreateBodies : CreatePackage(l, body, MaxPkgs)
  \/ Quiet /\ \E l \in Locations, id \in KnownIds, body \in UpdateBodies :
                UpdatePackage(l, id, body)
  \/ Quiet /\ \E l \in Locations, ids \in IdLists(KnownIds), updates \in DeliverBodies :
                BulkStart(l, ids, updates)
  \/ BulkStep
  \/ BulkFinish
  \/ Quiet /\ \E body \in {<<>>, [monthsOld |-> 1]} : SweepStart(1, body)
  \/ SweepInsert(1)
  \/ SweepDelete(1)
  \/ SweepFinish(1)
  \/ Quiet /\ Tick({Date(1, 5, 1)})

SpecPackages == InitPackages /\ [][NextPackages]_vars

\* the archive sweep, run without interleaving and without failure, over
\* packages created, delivered and un-delivered at various dates
NextArchive ==
  \/ Quiet /\ \E l \in Locations, body \in StorableBodies :
                CreatePackage(l, body, MaxArchivePkgs)
  \/ Quiet /\ \E p \in packages, body \in DeliverBodies :
                UpdatePackage(p.locationId, p.id, body)
  \/ Quiet /\ \E body \in ArchiveBodies : SweepStart(1, body)
  \/ SweepInsert(1)
  \/ SweepDelete(1)
  \/ SweepFinish(1)
  \/ Quiet /\ Tick(Dates)

SpecArchive == InitPackages /\ [][NextArchive]_vars

\* packages ever created while sweeps race
MaxRacePkgs == 1

\* no sweep starts once this many row ids have been handed out
MaxRaceIds == 3

\* archive sweeps of two administrators interleaving at their awaits, and
\* sweeps failing part-way
NextArchiveRace ==
  \/ \E l \in Locations : CreatePackage(l, [trackingNumber |-> "T1",
                            recipientName |-> "Jane", weight |-> 2], MaxRacePkgs)
  \/ \E l \in Locations, id \in KnownIds :
       UpdatePackage(l, id, [isDelivered |-> TRUE, pickedUpByLastName |-> "Doe"])
  \/ nextId <= MaxRaceIds /\
       \E s \in Slots, body \in {<<>>, [monthsOld |-> 1]} : SweepStart(s, body)
  \/ \E s \in Slots : SweepInsert(s)
  \/ \E s \in Slots : SweepDelete(s)
  \/ \E s \in Slots : SweepFinish(s)
  \/ \E s \in Slots : SweepFail(s)
  \/ Tick({Date(1, 5, 1)})

SpecArchiveRace == InitPackages /\ [][NextArchiveRace]_vars

(***************************************************************************)
(* Storage locations deleted while packages are created and moved.         *)
(***************************************************************************)
\* packages created while storage locations are deleted
MaxShelfPkgs == 2

Shelves == {"S1", "S2"}

\* bodies naming a storage location, and bodies naming none
ShelfCreateBodies ==
  {[trackingNumber |-> "T1", recipientName |-> "Jane", weight |-> 2,
    storageLocationId |-> sh] : sh \in Shelves \cup {""}}

ShelfUpdateBodies == {[storageLocationId |-> sh] : sh \in Shelves \cup {NULL}}

InitShelves ==
  /\ packages = {}
  /\ archivedPackages = {}
  /\ request = NoRequest
  /\ response = [status |-> 0]
  /\ bulk = IdleBulk
  /\ sweep = [s \in Slots |-> IdleSweep]
  /\ quote = NoQuote
  /\ NoTenants
  /\ storageLocations = Shelves
  /\ removal = IdleRemoval
  /\ NoScheduler
  /\ nextId = 1
  /\ now = Date(1, 1, 31)
  /\ apiKey = FALSE
  /\ locationBackups = {}
  /\ insertedRows = {}
  /\ remoteBins = {}
  /\ createdBins = {}
  /\ deleteRequested = {}
  /\ lastBackupAt = NoDate
  /\ run = [r \in Slots |-> IdleRun]
  /\ runsStarted = 0

\* package requests arrive at any moment, also between the two statements of
\* deleteStorageLocation
NextShelves ==
  \/ \E body \in ShelfCreateBodies : CreatePackage(AllLocations[1], body, MaxShelfPkgs)
  \/ \E p \in packages, body \in ShelfUpdateBodies :
       UpdatePackage(p.locationId, p.id, body)
  \/ \E role \in {"employee", "manager"}, sh \in storageLocations :
       DeleteStorageStart(role, sh)
  \/ DeleteStorageRow

SpecShelves == InitShelves /\ [][NextShelves]_vars

(***************************************************************************)
(* Locations: suspension and deletion by the administrator, next to the    *)
(* location-scoped requests of the locations' users.                       *)
(***************************************************************************)
\* packages created by the users
MaxTenantPkgs == 1

\* the users of the locations: a manager of "A", an employee of "B"
AppUsers == {[role |-> "manager", locationId |-> "A"],
             [role |-> "employee", locationId |-> "B"]}

\* what the administrator types as the name of the location to delete
ConfirmNames == Locations \cup {""}

InitTenants == \E key \in BOOLEAN : InitBackupWith(FullRows, key)

NextTenants ==
  \/ \E l \in Locations, suspended \in BOOLEAN : SetSuspended(l, suspended)
  \/ \E user \in AppUsers : GetAppUser(user)
  \/ \E user \in AppUsers, l \in Locations : AccessDenied(user, l)
  \/ \E user \in AppUsers, l \in Locations, body \in StorableBodies :
       CanAccessLocation(user, l) /\ CreatePackage(l, body, MaxTenantPkgs)
  \/ \E user \in AppUsers, l \in Locations, p \in packages, body \in DeliverBodies :
       CanAccessLocation(user, l) /\ UpdatePackage(l, p.id, body)
  \/ \E l \in Locations, confirmName \in ConfirmNames : DeleteLocationStart(l, confirmName)
  \/ \E outcome \in Outcomes : FinalSnapshot(outcome)
  \/ DeleteLocationRow

SpecTenants == InitTenants /\ [][NextTenants]_vars

(***************************************************************************)
(* One bulk update of a table of packages spread over the locations.       *)
(***************************************************************************)
\* packages in the table the bulk update is applied to
NumBulkPkgs == 5

\* a package created on 31 Jan, picked up the same day when delivered
StoredPackage(i, l, delivered) ==
  [id |-> i, locationId |-> l, trackingNumber |-> "T1", recipientName |-> "Jane",
   weight |-> 2, storageLocationId |-> NULL, notes |-> NULL, isDelivered |-> delivered,
   pickedUpByLastName |-> IF delivered THEN "Doe" ELSE NULL,
   deliveredAt |-> IF delivered THEN Date(1, 1, 31) ELSE NoDate,
   createdAt |-> Date(1, 1, 31)]

AllIds == [i \in 1..NumBulkPkgs |-> i]

\* the id lists of the request: every id; an unknown id first; the first two
\* ids; an id twice; none
BulkIdLists ==
  {AllIds, <<UnknownId>> \o AllIds, SubSeq(AllIds, 1, 2), <<1, 1>>, <<>>}

InitBulk ==
  \E loc \in [1..NumBulkPkgs -> Locations], delivered \in SUBSET {1, 2} :
    /\ packages = {StoredPackage(i, loc[i], i \in delivered) : i \in 1..NumBulkPkgs}
    /\ archivedPackages = {}
    /\ request = NoRequest
    /\ response = [status |-> 0]
    /\ bulk = IdleBulk
    /\ sweep = [s \in Slots |-> IdleSweep]
    /\ quote = NoQuote
    /\ NoTenants
    /\ NoStorage
    /\ NoScheduler
    /\ nextId = NumBulkPkgs + 1
    /\ now = Date(1, 3, 1)
    /\ apiKey = FALSE
    /\ locationBackups = {}
    /\ insertedRows = {}
    /\ remoteBins = {}
    /\ createdBins = {}
    /\ deleteRequested = {}
    /\ lastBackupAt = NoDate
    /\ run = [r \in Slots |-> IdleRun]
    /\ runsStarted = 0

\* the server's first request is a bulk update, scoped by the route's
\* location or (a direct caller of the storage function) not scoped
NextBulk ==
  \/ request = NoRequest /\
       \E l \in Locations \cup {NULL}, ids \in BulkIdLists, updates \in BulkUpdates :
          BulkStart(l, ids, updates)
  \/ BulkStep
  \/ BulkFinish

SpecBulk == InitBulk /\ [][NextBulk]_vars

\* the same request over a database whose statements may fail
NextBulkFail ==
  \/ request = NoRequest /\
       \E l \in Locations, ids \in BulkIdLists, updates \in DeliverBodies :
          BulkStart(l, ids, updates)
  \/ BulkStep
  \/ BulkFail
  \/ BulkFinish

SpecBulkFail == InitBulk /\ [][NextBulkFail]_vars

(***************************************************************************)
(* Claims about the backup rotation.                                       *)
(***************************************************************************)
NoRunInFlight == \A r \in Slots : ~InFlight(r)

RowsOf(l) == {b \in locationBackups : b.locationId = l}

\* C1: whenever a backup run has completed (runs executed one at a time, the
\* remote store succeeding or failing in any mix, every location starting
\* with at most 5 rows), every location has at most 5 LocationBackup rows.
C1_AtMostFiveAfterRun ==
  NoRunInFlight => \A l \in Locations : Cardinality(RowsOf(l)) <= 5

\* a run has completed, evicted a row after a remote delete that failed, and
\* left a location with exactly 5 rows
C1_Witness ==
  /\ NoRunInFlight
  /\ runsStarted >= 1
  /\ \E l \in Locations : Cardinality(RowsOf(l)) = 5
  /\ \E b \in deleteRequested : b \in remoteBins

InsertedOf(l) == {b \in insertedRows : b.locationId = l}

\* the k rows of a set created last
MostRecent(rows, k) ==
  {b \in rows : Cardinality({q \in rows : q.createdAt > b.createdAt}) < k}

\* the rows of location l that a rotation has evicted so far
Evicted(l) == InsertedOf(l) \ RowsOf(l)

\* C2: from empty tables and with every run successful, after n runs a
\* location holds min(n, 5) rows, the most recently created ones; each run
\* after the fifth evicts exactly one row, the oldest, and by the time the run
\* requests the creation of the new snapshot it has requested the remote
\* deletion of the evicted row's bin and has deleted the row.
C2_RotationKeepsNewestFive ==
  \A l \in Locations :
    LET n == Cardinality(InsertedOf(l))
    IN  /\ NoRunInFlight =>
             /\ n = runsStarted
             /\ RowsOf(l) = MostRecent(InsertedOf(l), 5)
             /\ (n >= 5 => Cardinality(RowsOf(l)) = 5)
             /\ Cardinality(Evicted(l)) = IF n > 5 THEN n - 5 ELSE 0
        /\ {b.binId : b \in Evicted(l)} \subseteq deleteRequested
        /\ \A r \in Slots :
             (run[r].pc \in {"create", "add"} /\ Head(run[r].locs) = l) =>
                /\ RowsOf(l) = MostRecent(InsertedOf(l), 4)
                /\ Cardinality(Evicted(l)) = IF n >= 5 THEN n - 4 ELSE 0
                /\ {b.binId : b \in Evicted(l)} = {x \in deleteRequested :
                       \E b \in InsertedOf(l) : b.binId = x}

\* seven successful runs have completed: two rows of each location evicted
C2_Witness ==
  /\ NoRunInFlight
  /\ runsStarted = 7
  /\ \A l \in Locations :
       Cardinality(RowsOf(l)) = 5 /\ Cardinality(Evicted(l)) = 2

\* C3: when two backup runs interleave at their awaits and every remote call
\* succeeds, then once both have finished each location has at most 5 rows,
\* no row names a bin whose deletion was requested, and every bin created by the
\* rotation whose deletion was never requested still has its row.
C3_ConsistentAfterConcurrentRuns ==
  (NoRunInFlight /\ runsStarted >= 2) =>
     /\ \A l \in Locations : Cardinality(RowsOf(l)) <= 5
     /\ \A b \in locationBackups : b.binId \notin deleteRequested
     /\ \A bin \in createdBins \ deleteRequested :
          \E b \in locationBackups : b.binId = bin


(***************************************************************************)
(* Claims about the package lifecycle.                                     *)
(***************************************************************************)
\* C4: in every reachable state every live package has a deliveredAt exactly
\* when its isDelivered is true, whatever creates, updates, bulk updates and
\* sweeps came before.
C4_DeliveredAtIffDelivered ==
  \A p \in packages : (p.deliveredAt # NoDate) <=> (p.isDelivered = TRUE)

\* C5: a package whose isDelivered is true keeps it true in every step that
\* keeps the package, and the package leaves the table only in a delete of
\* the archive sweep.
C5_DeliveredIsOneWay ==
  [][\A p \in packages :
       p.isDelivered = TRUE =>
         \/ \E q \in packages' : q.id = p.id /\ q.isDelivered = TRUE
         \/ /\ \A q \in packages' : q.id # p.id
            /\ \E s \in Slots : sweep[s].pc = "delete" /\ p.id \in {o.id : o \in sweep[s].pending}
    ]_vars

(***************************************************************************)
(* Claims about the archive sweep.                                         *)
(***************************************************************************)
\* the step in which the sweep of slot s returns
SweepReturns(s) == sweep[s].pc = "delete" /\ sweep'[s].pc = "idle"

\* delivered, and delivered strictly before day t
DeliveredBefore(p, t) ==
  p.isDelivered = TRUE /\ p.deliveredAt # NoDate /\ p.deliveredAt < t

\* the rows the archived table gained since the sweep of slot s began
NewArchived(s) == archivedPackages' \ sweep[s].beforeArchived

\* C6: when a sweep that ran alone returns, the live table has lost exactly
\* the packages that were delivered strictly before (now minus monthsOld
\* months) and kept every other package as it was; the archived table has
\* kept its rows and gained exactly one row per moved package, carrying the
\* package's locationId, trackingNumber, recipientName, pickedUpByLastName
\* and deliveredAt; and archivedCount is the number of packages moved.
C6_SweepMovesExactlyTheOld ==
  [][\A s \in Slots :
       SweepReturns(s) =>
         LET cutoff == CutoffDate(MonthsOld(request.body))
             moved  == {p \in sweep[s].before : DeliveredBefore(p, cutoff)}
         IN  /\ packages' = sweep[s].before \ moved
             /\ sweep[s].beforeArchived \subseteq archivedPackages'
             /\ \A p \in moved :
                  \E a \in NewArchived(s) :
                    /\ a.source = p.id
                    /\ a.locationId = p.locationId
                    /\ a.trackingNumber = p.trackingNumber
                    /\ a.recipientName = p.recipientName
                    /\ a.pickedUpByLastName = p.pickedUpByLastName
                    /\ a.deliveredAt = p.deliveredAt
             /\ Cardinality(NewArchived(s)) = Cardinality(moved)
             /\ \A a \in NewArchived(s) : \E p \in moved : a.source = p.id
             /\ response' = [status |-> 200, archivedCount |-> Cardinality(moved)]
    ]_vars

\* a sweep has returned having moved one package of two and left the other
C6_Witness ==
  /\ Quiet
  /\ request.op = "archive"
  /\ Has(response, "archivedCount") /\ response.archivedCount = 1
  /\ Cardinality(packages) = 1
  /\ Cardinality(archivedPackages) = 1
  /\ \E p \in packages : p.isDelivered = TRUE

\* the step in which a sweep is requested while nothing else is in flight
SweepRequested ==
  /\ Quiet
  /\ request'.op = "archive"
  /\ <<request, response, sweep>>' # <<request, response, sweep>>

\* C7: when a sweep returns, no live package qualifies for the same
\* monthsOld any more, and a sweep requested when no package qualifies
\* changes neither table and answers archivedCount 0: so a second sweep
\* right after a completed one archives nothing and changes nothing.
C7_SweepIsIdempotent ==
  [][/\ \A s \in Slots :
          SweepReturns(s) =>
            \A p \in packages' : ~DeliveredBefore(p, CutoffDate(MonthsOld(request.body)))
     /\ (SweepRequested /\
          \A p \in packages : ~DeliveredBefore(p, CutoffDate(MonthsOld(request'.body)))) =>
            /\ packages' = packages
            /\ archivedPackages' = archivedPackages
            /\ sweep' = sweep
            /\ response' = [status |-> 200, archivedCount |-> 0]
    ]_vars

\* a sweep has moved a package, and the sweep after it, which found a
\* delivered package still too recent, answered archivedCount 0
C7_Witness ==
  /\ Quiet
  /\ request.op = "archive"
  /\ response = [status |-> 200, archivedCount |-> 0]
  /\ archivedPackages # {}
  /\ \E p \in packages : p.isDelivered = TRUE /\ p.deliveredAt # NoDate

\* C8: in every reachable state the archived table holds at most one row per
\* source package, also when two sweeps interleave and when a sweep fails
\* after its inserts and is run again.
C8_NoPackageArchivedTwice ==
  \A a, b \in archivedPackages : a.source = b.source => a = b

(***************************************************************************)
(* Claims about the bulk update.                                           *)
(***************************************************************************)
\* the positions of the request's id list that name a package of the
\* request's location
OwnPositions ==
  {i \in 1..Len(request.packageIds) :
     \E p \in bulk.before : p.id = request.packageIds[i] /\ p.locationId = request.location}

\* C9: no step of a bulk update scoped to a location changes a package of
\* another location, and the update answers 200 with the number of listed
\* ids that name a package of the location, the ids of other locations
\* (and unknown ids) not counted.
C9_BulkSkipsOtherLocations ==
  [][(bulk.pc = "loop" /\ bulk.locationId # NULL) =>
       /\ \A p \in packages : p.locationId # bulk.locationId => p \in packages'
       /\ bulk'.pc = "idle" =>
            /\ response' = [status |-> 200, updated |-> Cardinality(OwnPositions)]
            /\ \A p \in bulk.before : p.locationId # request.location => p \in packages'
    ]_vars

\* five ids were listed, four of them of the location and one of another
\* location; the count returned is 4 and the four packages were changed
C9_Witness ==
  /\ request.op = "bulk"
  /\ request.location # NULL
  /\ request.packageIds = AllIds
  /\ Cardinality({p \in packages : p.locationId # request.location}) = 1
  /\ response = [status |-> 200, updated |-> 4]
  /\ \A p \in packages : p.locationId = request.location => p.recipientName = "Bob"

\* the fields a bulk update may set
BulkMutable == {"isDelivered", "recipientName", "pickedUpByLastName"}

\* C10: in every step of a bulk update each package stays in the table and
\* changes at most in isDelivered, recipientName and pickedUpByLastName, to
\* the value the updates supply, and in deliveredAt, to the time of the call,
\* when the updates deliver; an update object with none of the three fields
\* changes nothing and answers 200 with updated 0.
C10_BulkChangesOnlyTheThreeFields ==
  [][request'.op = "bulk" =>
       LET u == request'.updates
       IN  /\ \A p \in packages :
                \E q \in packages' :
                  /\ q.id = p.id
                  /\ \A f \in DOMAIN p :
                       q[f] # p[f] =>
                         \/ f \in BulkMutable /\ Has(u, f) /\ q[f] = u[f]
                         \/ f = "deliveredAt" /\ TruthyFlag(u, "isDelivered") /\ q[f] = now
           /\ Cardinality(packages') = Cardinality(packages)
           /\ (DOMAIN u \cap BulkMutable = {} /\ request'.packageIds # <<>>) =>
                /\ packages' = packages
                /\ bulk' = IdleBulk
                /\ response' = [status |-> 200, updated |-> 0]
    ]_vars

\* updates naming weight and locationId next to pickedUpByLastName were
\* applied to at least one package
C10_Witness ==
  /\ request.op = "bulk"
  /\ Has(request.updates, "weight") /\ Has(request.updates, "pickedUpByLastName")
  /\ BulkIdle
  /\ Has(response, "updated") /\ response.updated >= 1
  /\ \E p \in packages : p.pickedUpByLastName = "Doe" /\ p.isDelivered = FALSE

\* C11: a bulk update returns only when every listed id has been processed,
\* and then with a count: the failure of one id's statement neither skips
\* the ids after it nor is raised to the caller.
C11_BulkIsolatesFailedIds ==
  [][(bulk.pc = "loop" /\ bulk'.pc = "idle") =>
       /\ bulk.ids = <<>>
       /\ response'.status = 200
       /\ Has(response', "updated")
    ]_vars

(***************************************************************************)
(* Claims about storage locations.                                         *)
(***************************************************************************)
\* C12: the first step of deleteStorageLocation(id) keeps every package and
\* changes nothing but storageLocationId, from id to null; its second step
\* deletes the storage-location row and touches no package; and when it
\* completes no live package references id.
C12_DeleteStorageLocationUnshelves ==
  [][/\ (removal.pc = "idle" /\ removal'.pc = "delete") =>
          /\ storageLocations' = storageLocations
          /\ Cardinality(packages') = Cardinality(packages)
          /\ \A p \in packages :
               \E q \in packages' :
                 /\ q.id = p.id
                 /\ \A f \in DOMAIN p \ {"storageLocationId"} : q[f] = p[f]
                 /\ q.storageLocationId =
                      IF p.storageLocationId = removal'.id THEN NULL
                      ELSE p.storageLocationId
     /\ (removal.pc = "delete" /\ removal'.pc = "idle") =>
          /\ packages' = packages
          /\ storageLocations' = storageLocations \ {removal.id}
          /\ \A p \in packages' : p.storageLocationId # removal.id
    ]_vars

(***************************************************************************)
(* Claims about the backup scheduler.                                      *)
(***************************************************************************)
\* C13: in every reachable state at most one interval timer is armed, it is
\* the one backupInterval holds, and it has the frequency of the most recent
\* startBackupScheduler call; after a stop none is armed.
C13_AtMostOneTimerArmed ==
  /\ Cardinality(timers) <= 1
  /\ \A t \in timers :
       /\ started.on
       /\ t.frequencyHours = started.frequencyHours
       /\ t.id = backupInterval
  /\ ~started.on => timers = {}

\* the scheduler was started at least twice, the last time at 12 hours, and
\* a tick has run
C13_Witness ==
  /\ timerSeq >= 2
  /\ runsStarted >= 1
  /\ \E t \in timers : t.frequencyHours = 12

\* the runs the scheduler's timer started that are in flight
ScheduledInFlight == {r \in Slots : InFlight(r) /\ run[r].kind = "sched"}

\* C14: in every reachable state at most one run started by the scheduler's
\* timer is in flight.
C14_OneScheduledRunInFlight == Cardinality(ScheduledInFlight) <= 1

\* the step in which the handler in slot s returns from stopBackupScheduler
StopReturns(s) == pending[s].call = "stop" /\ pending'[s].call = "none"

\* C15: a timer callback runs only while the most recent scheduler call is
\* a start; stopBackupScheduler disarms every timer and leaves the run in
\* flight as it is; and a run, also one that goes on while the scheduler is
\* stopped, ends only after its last location, by setting lastBackupAt.
C15_StopHaltsTicksNotRuns ==
  [][/\ runsStarted' # runsStarted => started.on
     /\ \A s \in Slots :
          StopReturns(s) =>
            /\ timers' = {}
            /\ backupInterval' = NoTimer
            /\ run' = run
            /\ lastBackupAt' = lastBackupAt
     /\ (run[1].pc # "idle" /\ run'[1].pc = "idle") =>
          /\ run[1].locs = <<>>
          /\ lastBackupAt' = now
    ]_vars

\* the scheduler was started and then stopped, and the run that was in
\* flight has passed its last location and is about to set lastBackupAt
C15_Witness ==
  /\ ~started.on
  /\ timerSeq >= 1
  /\ timers = {}
  /\ run[1].kind = "sched"
  /\ run[1].pc = "settings"

(***************************************************************************)
(* Claims about failures during a backup run.                              *)
(***************************************************************************)
\* C16: when the DELETE request for the oldest snapshot fails (the store
\* still holds the bin afterwards), by an error response or by the request
\* throwing, the run stays on the same location and goes on to delete the
\* oldest row locally, and from there to create the new snapshot.
C16_RemoteDeleteFailureStillEvicts ==
  [][\A r \in Slots :
       (/\ run[r].pc = "remoteDelete"
        /\ run'[r].pc # "remoteDelete"
        /\ run[r].oldest.binId \in remoteBins') =>
          /\ run'[r].pc = "findOldest"
          /\ run'[r].locs = run[r].locs
    ]_vars

\* the step of the run in slot r recorded a backup row for location l
Recorded(l) == \E b \in locationBackups' \ locationBackups : b.locationId = l

\* C17: a step of a location's iteration, failing or not, touches no other
\* location's rows and either stays at the location or moves to the very
\* next one (to the settings update after the last); the step that ends the
\* iteration reports the location, as a success exactly when its row was
\* recorded; and the run ends only after the last location, with one report
\* for each.
C17_LocationFailureIsolated ==
  [][\A r \in Slots :
       /\ (/\ run[r].pc \notin {"idle", "settings"}
           /\ <<run'[r].pc, run'[r].locs>> # <<run[r].pc, run[r].locs>>) =>
            LET l == Head(run[r].locs)
                rest == Tail(run[r].locs)
            IN  /\ run'[r].pc # "idle"
                /\ run'[r].locs \in {run[r].locs, rest}
                /\ {b \in locationBackups' : b.locationId # l} =
                     {b \in locationBackups : b.locationId # l}
                /\ run'[r].locs # run[r].locs =>
                     /\ run'[r].pc = IF rest = <<>> THEN "settings" ELSE "data"
                     /\ run'[r].results =
                          Append(run[r].results,
                                 [locationId |-> l, success |-> Recorded(l)])
       /\ (run[r].pc # "idle" /\ run'[r].pc = "idle") =>
            /\ run[r].pc = "settings"
            /\ run[r].locs = <<>>
            /\ Len(run[r].results) = Len(AllLocations)
    ]_vars

\* the run in slot r ends in this step
RunEnds(r) == run[r].pc # "idle" /\ run'[r].pc = "idle"

\* C18: a run, scheduled or manual, ends only in the step after its last
\* location, and that step sets lastBackupAt to the time of the step,
\* whatever the run reported for its locations; no other step of a run
\* writes lastBackupAt.
C18_LastBackupAtOncePerRun ==
  [][/\ \A r \in Slots :
          RunEnds(r) =>
            /\ run[r].pc = "settings"
            /\ run[r].locs = <<>>
            /\ run[r].kind \in Kinds
            /\ lastBackupAt' = now
     /\ (\A r \in Slots : ~RunEnds(r)) => lastBackupAt' = lastBackupAt
    ]_vars

\* a run that recorded no backup for any location has ended and has set
\* lastBackupAt
C18_Witness ==
  /\ runsStarted >= 1
  /\ \A r \in Slots : run[r].pc = "idle"
  /\ lastBackupAt = now
  /\ insertedRows \subseteq {b \in insertedRows : b.createdAt <= Len(AllLocations) * MaxBackups}
  /\ deleteRequested # {}

(***************************************************************************)
(* Claims about pricing.                                                   *)
(***************************************************************************)
\* n units of money, as a cost
Units(n) == n * Hundred * Hundred

\* every decimal the call reads is a number
WellFormed(q) ==
  /\ ParseFloat(q.weight) # NaN
  /\ Truthy(q.perPoundRate) => ParseFloat(q.perPoundRate[1]) # NaN
  /\ \A i \in DOMAIN q.tiers :
       /\ ParseFloat(q.tiers[i].minWeight) # NaN
       /\ ParseFloat(q.tiers[i].maxWeight) # NaN
       /\ ParseFloat(q.tiers[i].price) # NaN

\* the least index of a non-empty set of indices
FirstOf(indices) == CHOOSE i \in indices : \A j \in indices : i <= j

\* the reference rule
ReferenceCost(q) ==
  LET w == ParseFloat(q.weight)
      min(i) == ParseFloat(q.tiers[i].minWeight)
      max(i) == ParseFloat(q.tiers[i].maxWeight)
      price(i) == ParseFloat(q.tiers[i].price)
      Matching == {i \in DOMAIN q.tiers : min(i) <= w /\ w <= max(i)}
      Greatest == {i \in DOMAIN q.tiers : \A j \in DOMAIN q.tiers : max(j) <= max(i)}
  IN  IF ~q.pricingEnabled THEN 0
      ELSE IF q.pricingType = "per_pound"
      THEN IF q.perPoundRate = <<>> \/ q.perPoundRate[1] = <<>> THEN 0
           ELSE w * ParseFloat(q.perPoundRate[1])
      ELSE IF q.pricingType = "range_based"
      THEN IF Matching # {} THEN Hundred * price(FirstOf(Matching))
           ELSE IF Greatest # {} /\ w > max(FirstOf(Greatest))
           THEN Hundred * price(FirstOf(Greatest))
           ELSE 0
      ELSE 0

\* the tiers [(0,5,5), (5,10,8)] under enabled range-based pricing
ExampleTiers ==
  <<Tier(<<"0">>, <<"5">>, <<"5">>), Tier(<<"5">>, <<"1", "0">>, <<"8">>)>>

IsExample(q, weightText) ==
  /\ q.pricingEnabled /\ q.pricingType = "range_based"
  /\ q.tiers = ExampleTiers
  /\ q.weight = weightText

InvalidInput(q) ==
  \/ ParseFloat(q.weight) = NaN
  \/ ParseFloat(q.weight) <= 0
  \/ /\ q.pricingEnabled /\ q.pricingType = "range_based"
     /\ \E i \in DOMAIN q.tiers :
          NaN \in {ParseFloat(q.tiers[i].minWeight), ParseFloat(q.tiers[i].maxWeight),
                   ParseFloat(q.tiers[i].price)}

\* C20: a call with a weight of 0, a negative weight or a malformed decimal
\* ends with an error, not with a cost.
C20_InvalidInputRejected ==
  (quote.pc = "returned" /\ InvalidInput(quote)) => quote.threw

(***************************************************************************)
(* Claims about search.                                                    *)
(***************************************************************************)
\* a search has been answered with a result
Found == request.op = "search" /\ response.status = 200 /\ response.summary # <<>>

\* the packages the search matched
Matched ==
  {p \in packages :
     /\ p.locationId = request.locationId
     /\ \/ ILike(p.recipientName, request.query)
        \/ ILike(p.trackingNumber, request.query)}

\* the matched packages whose name is the recipient's of pkg, up to letter
\* case and surrounding blanks
SameRecipient(pkg) ==
  {p \in Matched : Trim(ToLowerCase(p.recipientName)) = Trim(ToLowerCase(pkg.recipientName))}

\* the ids of the packages of a summary
IdsOf(summary) == {summary.packages[i].id : i \in DOMAIN summary.packages}

\* C21: the packages of each group are exactly the matched packages of one
\* recipient, whatever the case and the blanks of the names, and the group's
\* display name is the name of the package of the group created first.
C21_GroupsByNormalizedName ==
  Found =>
    \A i \in DOMAIN response.summary[1].recipientSummaries :
      LET summary == response.summary[1].recipientSummaries[i]
          group == SameRecipient(summary.packages[1])
          first == CHOOSE p \in group : \A q \in group : p.createdAt <= q.createdAt
      IN  /\ IdsOf(summary) = {p.id : p \in group}
          /\ summary.recipientName = first.recipientName

RECURSIVE SumOf(_, _)
\* the sum of cost[p] over the packages p of a finite set
SumOf(pkgs, cost) ==
  IF pkgs = {} THEN 0
  ELSE LET p == CHOOSE q \in pkgs : TRUE
       IN  cost[p] + SumOf(pkgs \ {p}, cost)

\* the cost of a package of the searched location: weight times 2.50
CostPerPound == [p \in packages |-> ParseFloat(p.weight) * ParseFloat(<<"2", ".", "5", "0">>)]

\* C22: in every result each group counts its packages, the pending and the
\* delivered ones adding up to the total; its totalCost is the sum of the
\* costs of its pending packages alone; and the groups partition the
\* matched packages.
C22_SummaryCountsAndCost ==
  Found =>
    LET summaries == response.summary[1].recipientSummaries
    IN  /\ \A i \in DOMAIN summaries :
             LET group == {p \in Matched : p.id \in IdsOf(summaries[i])}
             IN  /\ summaries[i].totalPackages = Cardinality(group)
                 /\ summaries[i].totalPackages = Len(summaries[i].packages)
                 /\ summaries[i].pendingPackages =
                      Cardinality({p \in group : ~p.isDelivered})
                 /\ summaries[i].deliveredPackages =
                      Cardinality({p \in group : p.isDelivered})
                 /\ summaries[i].totalPackages =
                      summaries[i].pendingPackages + summaries[i].deliveredPackages
                 /\ summaries[i].totalCost =
                      SumOf({p \in group : ~p.isDelivered}, CostPerPound)
        /\ \A p \in Matched :
             Cardinality({i \in DOMAIN summaries : p.id \in IdsOf(summaries[i])}) = 1
        /\ \A i \in DOMAIN summaries : IdsOf(summaries[i]) \subseteq {p.id : p \in Matched}

\* a search found a group of a delivered and of two pending packages
C22_Witness ==
  /\ Found
  /\ \E i \in DOMAIN response.summary[1].recipientSummaries :
       LET summary == response.summary[1].recipientSummaries[i]
       IN  /\ summary.deliveredPackages = 1
           /\ summary.pendingPackages = 2
           /\ summary.totalCost > 0

\* the distinct recipients among the matched packages
MatchedRecipients == {Trim(ToLowerCase(p.recipientName)) : p \in Matched}

\* C23: a search that matches no package answers null; one that matches
\* some answers a result whose tooManyRecipients tells whether the matched
\* packages are of 4 or more distinct recipients.
C23_TooManyFromFourRecipients ==
  (request.op = "search" /\ response.status = 200) =>
    /\ response.summary = <<>> <=> Matched = {}
    /\ Found =>
         /\ response.summary[1].tooManyRecipients <=> Cardinality(MatchedRecipients) >= 4
         /\ Len(response.summary[1].recipientSummaries) = Cardinality(MatchedRecipients)
         /\ response.summary[1].allPackages # <<>>

\* a search found exactly 3 recipients and did not flag them as too many
C23_Witness ==
  /\ Found
  /\ Cardinality(MatchedRecipients) = 3
  /\ ~response.summary[1].tooManyRecipients

C30_SuspendedLocationIsClosed ==
  [][(/\ request'.op \in {"create", "update"}
      /\ packages' # packages \/ response' # response
      /\ \E row \in locations : row.id = request'.location /\ row.isSuspended) =>
        /\ packages' = packages
        /\ response'.status = 403
    ]_vars

(***************************************************************************)
(* Further claims about packages, shelves and the scheduler.               *)
(***************************************************************************)
\* C25: a delivered package that stays delivered keeps its deliveredAt in
\* every step, also in one that delivers it again.
C25_DeliveredAtSetOnce ==
  [][\A p \in packages :
       (p.isDelivered = TRUE /\ p.deliveredAt # NoDate) =>
         \A q \in packages' :
           (q.id = p.id /\ q.isDelivered = TRUE) => q.deliveredAt = p.deliveredAt
    ]_vars

\* C27: in every reachable state the storageLocationId of every live
\* package is null or the id of an existing storage location.
C27_ShelfOfPackageExists ==
  \A p \in packages : p.storageLocationId \in storageLocations \cup {NULL}

\* C28: in every reachable state in which no handler has a scheduler call
\* still to make, when the stored settings say that backups are disabled no
\* timer is armed, and an armed timer has the stored frequencyHours.
C28_TimerOnlyWhileEnabled ==
  (\A s \in Slots : pending[s].call = "none") =>
    /\ ~settings.enabled => timers = {}
    /\ \A t \in timers : t.frequencyHours = settings.frequencyHours

\* C29: an update request authorised for one location changes no package of
\* another location and moves no package to another location.
C29_UpdateStaysInItsLocation ==
  [][(request'.op = "update" /\ packages' # packages) =>
       /\ \A p \in packages : p.locationId # request'.location => p \in packages'
       /\ \A p \in packages, q \in packages' : q.id = p.id => q.locationId = p.locationId
    ]_vars

\* the statement a run is at and the locations it still has to visit
Position(rec) == <<rec.pc, rec.locs>>

\* the step of the run in slot r written without its kind: what the tables,
\* the remote store and the run's position become, given the statement the
\* run is at and how that statement was answered
SameRotationStep(r) ==
  LET rec == run[r]
      at == Position(run'[r])
      skip == Position(NextLocation(rec))
      goes(pc) == at = <<pc, rec.locs>>
      rows == getLocationBackups(Head(rec.locs))
      keptRows == locationBackups' = locationBackups
      keptBins == remoteBins' = remoteBins /\ createdBins' = createdBins
      keptAsked == deleteRequested' = deleteRequested
      kept == keptRows /\ keptBins /\ keptAsked
  IN  /\ lastBackupAt' = IF rec.pc = "settings" THEN now ELSE lastBackupAt
      /\ CASE rec.pc = "idle" ->
                /\ kept
                /\ apiKey
                /\ at = <<"data", AllLocations>>
           [] rec.pc = "data" ->
                /\ kept
                /\ goes("list") \/ at = skip
           [] rec.pc = "list" ->
                /\ kept
                /\ \/ goes(IF NeedsEviction(rows) THEN "remoteDelete" ELSE "create")
                   \/ at = skip
           [] rec.pc = "remoteDelete" ->
                /\ keptRows
                /\ createdBins' = createdBins
                /\ deleteRequested' = deleteRequested \cup {rec.oldest.binId}
                /\ \/ goes("findOldest") /\ remoteBins' \in {remoteBins, remoteBins \ {rec.oldest.binId}}
                   \/ at = skip /\ remoteBins' = remoteBins
           [] rec.pc = "findOldest" ->
                /\ kept
                /\ goes(IF Len(rows) > 0 THEN "deleteRow" ELSE "create") \/ at = skip
           [] rec.pc = "deleteRow" ->
                /\ keptBins
                /\ keptAsked
                /\ \/ goes("create") /\ locationBackups' = {b \in locationBackups : b.id # rec.victim.id}
                   \/ at = skip /\ keptRows
           [] rec.pc = "create" ->
                /\ keptRows
                /\ keptAsked
                /\ \/ /\ goes("add")
                      /\ remoteBins' = remoteBins \cup {nextId}
                      /\ createdBins' = createdBins \cup {nextId}
                   \/ at = skip /\ keptBins
           [] rec.pc = "add" ->
                /\ keptBins
                /\ keptAsked
                /\ at = skip
                /\ \/ keptRows
                   \/ locationBackups' = locationBackups \cup {NewBackupRow(Head(rec.locs), rec.binId)}
           [] rec.pc = "settings" ->
                /\ kept
                /\ run'[r].pc = "idle"

\* C26: a step of a run, manual or scheduled, is the step the statement it is
\* at, the tables and the remote answer give: the same remote deletes and
\* creates, the same LocationBackup rows, the same next statement and the
\* same lastBackupAt update, whatever the kind of the run.
C26_ManualAndScheduledRotateAlike ==
  [][\A r \in Slots : Position(run'[r]) # Position(run[r]) => SameRotationStep(r)]_vars

\* a scheduled run that skipped a location whose create was not accepted, at
\* its lastBackupAt update
C26_Witness ==
  /\ run[1].kind = "sched"
  /\ run[1].pc = "settings"
  /\ Len(run[1].results) < Len(AllLocations)

==========================================================================
